---- MODULE Spec2Model ----
(***************************************************************************)
(* A model of the ArDrive CLI core: the folder hierarchy reconstruction,   *)
(* the paged "get all" queries with the last-revision filter, the          *)
(* preparation of ArFS transactions and data items, and the community tip  *)
(* oracle.  Strings that are joined or split are sequences of tokens, a    *)
(* token being one character or one opaque identifier (a uuid, a           *)
(* transaction id); "/" is the token of the path separator.                *)
(***************************************************************************)
EXTENDS Integers, Sequences, FiniteSets, TLC

VARIABLES
    \* ---- folder hierarchy ----
    entities,      \* the folder entities handed to FolderHierarchy.newFromEntities
    hpc,           \* position of the hierarchy scenario
    hierarchy,     \* the FolderHierarchy built from the entities
    subTree,       \* the FolderHierarchy returned by subTreeOf, and its argument
    pathResult,    \* the outcome of the three path methods for one argument
    withPaths,     \* the outcome of constructing ArFSPublicFileOrFolderWithPaths
    \* ---- paged queries ----
    ledger,        \* the edges matching the query, in the gateway's order
    latestRevisionsOnly,
    qpc,           \* position of the get-all operation
    cursor,        \* cursor of the paging loop
    hasNextPage,   \* hasNextPage of the paging loop
    allFiles,      \* the entities collected so far
    queries,       \* the queries issued so far: the cursor sent, the edges received
    listing,       \* what the get-all operation returned
    \* ---- transaction / data item preparation ----
    ppc,           \* position of the prepare operation
    prepInput,     \* the arguments of the prepare operation
    prepObject,    \* the transaction or data item being prepared
    prepError,     \* the error the prepare operation threw
    \* ---- community oracle ----
    contract,      \* the community contract object the contract oracle hands out
    oracleCalls,   \* number of oracle calls made
    tipCall,       \* arguments and result of the last getCommunityARTip
    holderCall,    \* result of the last selectTokenHolder
    \* ---- listing a folder ----
    drive,         \* the folder and file records of the ledger
    lpc,           \* position of listPublicFolder
    listArg,       \* the folder id listPublicFolder is called with
    listWork,      \* the locals of listPublicFolder
    listed,        \* what listPublicFolder returned or threw
    \* ---- ArDrive file upload ----
    apc,           \* position of ArDrive.uploadPublicFile / uploadPrivateFile
    aInput,        \* the wallet, the ledger answers and the fees of the run
    aTrx,          \* the transactions prepared so far
    aTasks,        \* the three submissions joined by Promise.all
    aResult,       \* what the upload returned or threw
    \* ---- the DAO's write operations ----
    dryRun,        \* the dryRun flag of the ArFSDAO
    dOp,           \* the write operation of the run and its settings
    dpc,           \* position of the operation: the step and the transaction it is at
    dLocal,        \* the locals of the operation: parentFolderId, the ids generated
    dTrx,          \* the transactions and data items prepared so far
    dUploader,     \* the uploader the operation holds
    dChain,        \* the records on the ledger
    dLog,          \* the calls made on the gateway and the progress lines, in order
    dResult,       \* what the operation returned or threw
    dLookup,       \* the outcome of a getDriveIdForFolderId after the operation
    \* ---- a write operation and its retries ----
    rOp,           \* the write operation the caller runs and runs again
    rpc,           \* position of the current attempt
    rAttempt,      \* number of the current attempt
    rIds,          \* the entity ids of each attempt
    rUsed,         \* the ids uuidv4 has handed out
    rChain,        \* the records published, with the attempt that wrote them
    \* ---- output path of a download ----
    fs,            \* the file system: what statSync finds at each path
    cwd,           \* the working directory that resolve starts from
    destOutputPath, \* the argument of getOutputFilePathAndName
    fpc,           \* position of the call
    outResult,     \* what getOutputFilePathAndName returned or threw
    \* ---- the builders of a page ----
    pending,       \* the edges of the current page whose builder has not completed
    completed,     \* the edges of the current page in the order their builders completed
    \* ---- the tx-status command ----
    txOptions,
    gateway,
    tpc,
    txOut,
    \* ---- the sync loop of main ----
    spc,
    sIter,
    sTasks

hvars == <<entities, hpc, hierarchy, subTree, pathResult, withPaths>>
qvars == <<ledger, latestRevisionsOnly, qpc, cursor, hasNextPage, allFiles, queries, listing>>
pvars == <<ppc, prepInput, prepObject, prepError>>
ovars == <<contract, oracleCalls, tipCall, holderCall>>
lvars == <<drive, lpc, listArg, listWork, listed>>
avars == <<apc, aInput, aTrx, aTasks, aResult>>
dvars == <<dryRun, dOp, dpc, dLocal, dTrx, dUploader, dChain, dLog, dResult, dLookup>>
rvars == <<rOp, rpc, rAttempt, rIds, rUsed, rChain>>
fvars == <<fs, cwd, destOutputPath, fpc, outResult>>
bvars == <<pending, completed>>
tvars == <<txOptions, gateway, tpc, txOut>>
svars == <<spc, sIter, sTasks>>
vars == <<hvars, qvars, pvars, ovars, lvars, avars, dvars, rvars, fvars, bvars, tvars, svars>>

-----------------------------------------------------------------------------
(* Generic helpers on sequences.                                           *)

\* Array.prototype.includes on a sequence
Includes(seq, x) == \E i \in 1..Len(seq) : seq[i] = x

\* the elements of a sequence
Range(seq) == {seq[i] : i \in 1..Len(seq)}

\* Array.prototype.reverse
Reverse(seq) == [i \in 1..Len(seq) |-> seq[Len(seq) + 1 - i]]

\* Array.prototype.join: the strings of `parts` with `sep` between them
RECURSIVE JoinSeq(_, _)
JoinSeq(parts, sep) ==
    IF Len(parts) = 0 THEN <<>>
    ELSE IF Len(parts) = 1 THEN parts[1]
    ELSE parts[1] \o <<sep>> \o JoinSeq(Tail(parts), sep)

\* String.prototype.split: the segments of `str` between occurrences of `sep`
RECURSIVE SplitSeq(_, _)
SplitSeq(str, sep) ==
    IF \A i \in 1..Len(str) : str[i] # sep THEN <<str>>
    ELSE LET k == CHOOSE i \in 1..Len(str) :
                      str[i] = sep /\ \A j \in 1..(i - 1) : str[j] # sep
         IN <<SubSeq(str, 1, k - 1)>> \o SplitSeq(SubSeq(str, k + 1, Len(str)), sep)

\* the keys of an object built by inserting `ids` in order (Object.keys order:
\* a key keeps the position of its first insertion)
RECURSIVE KeysInOrder(_)
KeysInOrder(ids) ==
    IF Len(ids) = 0 THEN <<>>
    ELSE LET front == KeysInOrder(SubSeq(ids, 1, Len(ids) - 1))
             last == ids[Len(ids)]
         IN IF Includes(front, last) THEN front ELSE Append(front, last)

Ok(v) == [err |-> "none", val |-> v]
Err(e) == [err |-> e, val |-> <<>>]

-----------------------------------------------------------------------------
(* Folder hierarchy.                                                        *)

\* the largest number of folder entities handed to newFromEntities
MaxEntities == 3

\* entity ids are uuids and transaction ids are hashes: opaque tokens
IdPool == <<"f1", "f2", "f3", "f4", "f5">>
TxPool == <<"t1", "t2", "t3", "t4", "t5">>
FolderIds(n) == {IdPool[i] : i \in 1..n}

\* the parentFolderId of a drive's root folder
ROOT_FOLDER == "root folder"
\* a folder id no entity of the input carries
AbsentId == "f0"
\* the parent of a FolderTreeNode built without one
NoNode == "undefined"

\* folder and file names are free text: one of them contains the separator
Names == {<<"a">>, <<"b", "/", "c">>}

\* The inputs of newFromEntities.  The ids are opaque, so the entity at
\* position i is given the i-th id of the pool: every list of entities with
\* distinct ids is one of these up to a renaming of the ids.  Parent
\* references are arbitrary: the sentinel, an id without a record, any id of
\* the list (so cycles and self-parents are among the inputs).
EntityLists ==
    { [i \in 1..Len(x[1]) |-> [entityId |-> IdPool[i],
                               parentFolderId |-> x[1][i],
                               name |-> x[2][i],
                               txId |-> TxPool[i]]] :
        x \in UNION { [1..n -> FolderIds(n) \cup {ROOT_FOLDER, AbsentId}]
                         \X [1..n -> Names] :
                      n \in 1..MaxEntities } }

FolderTreeNode(folderId, parent) ==
    [folderId |-> folderId, parent |-> parent, children |-> <<>>]

\* folderIdToEntityMap of newFromEntities: the reduce with Object.assign
EntityMapOf(ents) ==
    [id \in {ents[i].entityId : i \in 1..Len(ents)} |->
        ents[CHOOSE i \in 1..Len(ents) :
                 ents[i].entityId = id
                 /\ \A j \in (i + 1)..Len(ents) : ents[j].entityId # id]]

\* a variant of setupNodesWithEntity that links an entity to its parent only
\* when the parent's node is already there, without setting the parent up
setupNodesWithEntity_ParentIfPresent(entity, folderIdToEntityMap, folderIdToNodeMap, depth) ==
    IF entity.entityId \in DOMAIN folderIdToNodeMap
    THEN [overflow |-> FALSE, map |-> folderIdToNodeMap]
    ELSE [overflow |-> FALSE,
          map |-> [id \in DOMAIN folderIdToNodeMap \cup {entity.entityId} |->
                     IF id = entity.entityId
                     THEN FolderTreeNode(entity.entityId,
                                         IF entity.parentFolderId \in DOMAIN folderIdToNodeMap
                                         THEN entity.parentFolderId ELSE NoNode)
                     ELSE IF id = entity.parentFolderId
                     THEN [folderIdToNodeMap[id] EXCEPT !.children = Append(@, entity.entityId)]
                     ELSE folderIdToNodeMap[id]]]

\* setupNodesWithEntity.  The recursion on the parent has no cycle guard: a
\* call nested deeper than the number of entities has met an entity twice
\* and recurses without end, which the runtime ends with a RangeError.
RECURSIVE setupNodesWithEntity(_, _, _, _)
setupNodesWithEntity(entity, folderIdToEntityMap, folderIdToNodeMap, depth) ==
    IF depth > Cardinality(DOMAIN folderIdToEntityMap)
    THEN [overflow |-> TRUE, map |-> folderIdToNodeMap]
    ELSE
    LET folderIdKeyIsPresent == entity.entityId \in DOMAIN folderIdToNodeMap
        parentFolderIdKeyIsPresent == entity.parentFolderId \in DOMAIN folderIdToNodeMap
    IN  IF folderIdKeyIsPresent
        THEN [overflow |-> FALSE, map |-> folderIdToNodeMap]
        ELSE
        LET rec == IF ~parentFolderIdKeyIsPresent
                      /\ entity.parentFolderId \in DOMAIN folderIdToEntityMap
                   THEN setupNodesWithEntity(folderIdToEntityMap[entity.parentFolderId],
                                             folderIdToEntityMap, folderIdToNodeMap,
                                             depth + 1)
                   ELSE [overflow |-> FALSE, map |-> folderIdToNodeMap]
            m == rec.map
        IN  IF rec.overflow THEN rec
            ELSE IF entity.parentFolderId \in DOMAIN m
            THEN \* parent.children.push(node); folderIdToNodeMap[entityId] = node
                 [overflow |-> FALSE,
                  map |-> [id \in DOMAIN m \cup {entity.entityId} |->
                             IF id = entity.entityId
                             THEN FolderTreeNode(entity.entityId, entity.parentFolderId)
                             ELSE IF id = entity.parentFolderId
                             THEN [m[id] EXCEPT !.children = Append(@, entity.entityId)]
                             ELSE m[id]]]
            ELSE \* this one is supposed to be the new root
                 [overflow |-> FALSE,
                  map |-> [id \in DOMAIN m \cup {entity.entityId} |->
                             IF id = entity.entityId
                             THEN FolderTreeNode(entity.entityId, NoNode)
                             ELSE m[id]]]

\* a variant of the for loop that passes over the entities whose parent has
\* no entity in the input
RECURSIVE SetupAll_SkipOrphans(_, _, _, _)
SetupAll_SkipOrphans(ents, i, folderIdToEntityMap, acc) ==
    IF acc.overflow \/ i > Len(ents) THEN acc
    ELSE SetupAll_SkipOrphans(ents, i + 1, folderIdToEntityMap,
            IF ents[i].parentFolderId \in DOMAIN folderIdToEntityMap
            THEN setupNodesWithEntity(ents[i], folderIdToEntityMap, acc.map, 1)
            ELSE acc)

\* the for loop of newFromEntities over entities[i..]
RECURSIVE SetupAll(_, _, _, _)
SetupAll(ents, i, folderIdToEntityMap, acc) ==
    IF acc.overflow \/ i > Len(ents) THEN acc
    ELSE SetupAll(ents, i + 1, folderIdToEntityMap,
                  setupNodesWithEntity(ents[i], folderIdToEntityMap, acc.map, 1))

EmptyMap == [x \in {} |-> x]

\* a variant of newFromEntities whose loop starts at the second entity
newFromEntities_OffByOne(ents) ==
    LET emap == EntityMapOf(ents)
        built == SetupAll(ents, 2, emap, [overflow |-> FALSE, map |-> EmptyMap])
    IN  IF built.overflow
        THEN [err |-> "RangeError", keys |-> <<>>, emap |-> EmptyMap, nmap |-> EmptyMap]
        ELSE [err |-> "none",
              keys |-> KeysInOrder([i \in 1..Len(ents) |-> ents[i].entityId]),
              emap |-> emap,
              nmap |-> built.map]

\* FolderHierarchy.newFromEntities: err is "RangeError" when the recursion
\* does not end; otherwise the hierarchy (keys: Object.keys of the entity map)
newFromEntities(ents) ==
    LET emap == EntityMapOf(ents)
        built == SetupAll(ents, 1, emap, [overflow |-> FALSE, map |-> EmptyMap])
    IN  IF built.overflow
        THEN [err |-> "RangeError", keys |-> <<>>, emap |-> EmptyMap, nmap |-> EmptyMap]
        ELSE [err |-> "none",
              keys |-> KeysInOrder([i \in 1..Len(ents) |-> ents[i].entityId]),
              emap |-> emap,
              nmap |-> built.map]

\* the rootNode getter: from the first key of the entity map, up the parents
\* that the node map of this hierarchy knows
RECURSIVE ClimbToRoot(_, _)
ClimbToRoot(h, tmpNode) ==
    IF tmpNode.parent # NoNode /\ tmpNode.parent \in DOMAIN h.nmap
    THEN ClimbToRoot(h, h.nmap[tmpNode.parent])
    ELSE tmpNode

rootNode(h) == ClimbToRoot(h, h.nmap[h.keys[1]])

\* FolderHierarchy.allFolderIDs
allFolderIDs(h) == h.keys

\* a variant of nodeAndChildrenOf that also collects the node's parent
nodeAndChildrenOf_WithParent(h, node) ==
    <<node.folderId>>
    \o (IF node.parent = NoNode THEN <<>> ELSE <<node.parent>>)
    \o node.children

\* FolderHierarchy.nodeAndChildrenOf
nodeAndChildrenOf(h, node) == <<node.folderId>> \o node.children

\* FolderHierarchy.subTreeOf; the nodes are shared with the hierarchy they
\* come from, so a node of the sub-tree keeps its parent reference
subTreeOf(h, folderId) ==
    IF folderId \notin DOMAIN h.nmap
    THEN [err |-> "TypeError", keys |-> <<>>, emap |-> EmptyMap, nmap |-> EmptyMap]
    ELSE LET subTreeNodes == nodeAndChildrenOf(h, h.nmap[folderId])
             ids == Range(subTreeNodes)
         IN [err |-> "none",
             keys |-> KeysInOrder(subTreeNodes),
             emap |-> [id \in ids |-> h.emap[id]],
             nmap |-> [id \in ids |-> h.nmap[id]]]

\* the while loop shared by the three path methods: from the folder's node up
\* to the root, following the parent references of the nodes (`full` is the
\* hierarchy that owns every node)
RECURSIVE NodesInPathToFolder(_, _, _)
NodesInPathToFolder(h, full, folderNode) ==
    IF folderNode.parent # NoNode /\ folderNode.folderId # rootNode(h).folderId
    THEN <<folderNode.folderId>> \o NodesInPathToFolder(h, full, full.nmap[folderNode.parent])
    ELSE <<folderNode.folderId>>

\* what a node contributes to a path: `which` is 1 for pathToFolderId (the
\* name), 2 for entityPathToFolderId (the folder id), 3 for txPathToFolderId
\* (the txId)
PathSegment(h, id, which) ==
    IF which = 1 THEN h.emap[id].name
    ELSE IF which = 2 THEN <<id>>
    ELSE <<h.emap[id].txId>>

\* a variant of the path methods that treats the root folder's own id like
\* the sentinel
PathOf_RootIsSentinel(h, full, folderId, which) ==
    IF rootNode(h).parent # NoNode
    THEN Err("Can't compute paths from sub-tree")
    ELSE IF folderId = ROOT_FOLDER \/ folderId = rootNode(h).folderId THEN Ok(<<"/">>)
    ELSE IF folderId \notin DOMAIN h.nmap THEN Err("TypeError")
    ELSE LET olderFirst == Reverse(NodesInPathToFolder(h, full, h.nmap[folderId]))
         IN  IF \E i \in 1..Len(olderFirst) : olderFirst[i] \notin DOMAIN h.emap
             THEN Err("TypeError")
             ELSE Ok(<<"/">>
                     \o JoinSeq([i \in 1..Len(olderFirst) |->
                                    PathSegment(h, olderFirst[i], which)], "/")
                     \o <<"/">>)

\* a variant of the path methods that answers the sentinel before it looks
\* at the root node
PathOf_SentinelFirst(h, full, folderId, which) ==
    IF folderId = ROOT_FOLDER THEN Ok(<<"/">>)
    ELSE IF rootNode(h).parent # NoNode
    THEN Err("Can't compute paths from sub-tree")
    ELSE IF folderId \notin DOMAIN h.nmap THEN Err("TypeError")
    ELSE LET olderFirst == Reverse(NodesInPathToFolder(h, full, h.nmap[folderId]))
         IN  IF \E i \in 1..Len(olderFirst) : olderFirst[i] \notin DOMAIN h.emap
             THEN Err("TypeError")
             ELSE Ok(<<"/">>
                     \o JoinSeq([i \in 1..Len(olderFirst) |->
                                    PathSegment(h, olderFirst[i], which)], "/")
                     \o <<"/">>)

\* the body the three path methods share
PathOf(h, full, folderId, which) ==
    IF rootNode(h).parent # NoNode
    THEN Err("Can't compute paths from sub-tree")
    ELSE IF folderId = ROOT_FOLDER THEN Ok(<<"/">>)
    ELSE IF folderId \notin DOMAIN h.nmap THEN Err("TypeError")
    ELSE LET olderFirst == Reverse(NodesInPathToFolder(h, full, h.nmap[folderId]))
         IN  IF \E i \in 1..Len(olderFirst) : olderFirst[i] \notin DOMAIN h.emap
             THEN Err("TypeError")
             ELSE Ok(<<"/">>
                     \o JoinSeq([i \in 1..Len(olderFirst) |->
                                    PathSegment(h, olderFirst[i], which)], "/")
                     \o <<"/">>)

pathToFolderId(h, full, folderId) == PathOf(h, full, folderId, 1)
entityPathToFolderId(h, full, folderId) == PathOf(h, full, folderId, 2)
txPathToFolderId(h, full, folderId) == PathOf(h, full, folderId, 3)

\* a variant of the constructor that ends the path of a folder with a slash
FileOrFolderWithPaths_FolderSlash(entity, h) ==
    LET p == pathToFolderId(h, h, entity.parentFolderId)
        t == txPathToFolderId(h, h, entity.parentFolderId)
        e == entityPathToFolderId(h, h, entity.parentFolderId)
    IN  IF p.err # "none" THEN [err |-> p.err, entity |-> entity]
        ELSE IF t.err # "none" THEN [err |-> t.err, entity |-> entity]
        ELSE IF e.err # "none" THEN [err |-> e.err, entity |-> entity]
        ELSE [err |-> "none", entity |-> entity,
              path |-> p.val \o entity.name
                       \o (IF entity.txId \in Range(TxPool) THEN <<"/">> ELSE <<>>),
              txIdPath |-> t.val \o <<entity.txId>>,
              entityIdPath |-> e.val \o <<entity.entityId>>]

\* the constructor of ArFSPublicFileOrFolderWithPaths (and of the private
\* variant): it throws what the first failing path method throws
FileOrFolderWithPaths(entity, h) ==
    LET p == pathToFolderId(h, h, entity.parentFolderId)
        t == txPathToFolderId(h, h, entity.parentFolderId)
        e == entityPathToFolderId(h, h, entity.parentFolderId)
    IN  IF p.err # "none" THEN [err |-> p.err, entity |-> entity]
        ELSE IF t.err # "none" THEN [err |-> t.err, entity |-> entity]
        ELSE IF e.err # "none" THEN [err |-> e.err, entity |-> entity]
        ELSE [err |-> "none", entity |-> entity,
              path |-> p.val \o entity.name,
              txIdPath |-> t.val \o <<entity.txId>>,
              entityIdPath |-> e.val \o <<entity.entityId>>]

-----------------------------------------------------------------------------------------------------------------------------------------------------
(* The hierarchy scenario: build the hierarchy of the drive's folders, then *)
(* use it as listPublicFolder and listPrivateFolder do: take a sub-tree,    *)
(* compute paths, decorate an entity.                                       *)

HierarchyInit ==
    /\ entities \in EntityLists
    /\ hpc = "entities"
    /\ hierarchy = [err |-> "unset"]
    /\ subTree = [of |-> "unset"]
    /\ pathResult = [on |-> "unset"]
    /\ withPaths = [err |-> "unset"]
    \* the other components are at rest
    /\ ledger = <<>> /\ latestRevisionsOnly = FALSE /\ qpc = "idle" /\ cursor = ""
    /\ hasNextPage = TRUE /\ allFiles = <<>> /\ queries = <<>> /\ listing = <<>>
    /\ ppc = "idle" /\ prepInput = <<>> /\ prepObject = <<>> /\ prepError = "none"
    /\ contract = <<>> /\ oracleCalls = 0 /\ tipCall = <<>> /\ holderCall = <<>>
    /\ drive = <<>> /\ lpc = "idle" /\ listArg = "" /\ listWork = <<>> /\ listed = [err |-> "unset"]
    /\ apc = "idle" /\ aInput = <<>> /\ aTrx = <<>> /\ aTasks = <<>> /\ aResult = [err |-> "unset"]
    /\ dryRun = FALSE /\ dOp = <<>> /\ dpc = [at |-> "idle"] /\ dLocal = <<>> /\ dTrx = <<>> /\ dUploader = <<>> /\ dChain = <<>> /\ dLog = <<>> /\ dResult = [err |-> "unset"] /\ dLookup = [err |-> "unset"]
    /\ rOp = <<>> /\ rpc = [at |-> "idle"] /\ rAttempt = 0 /\ rIds = <<>> /\ rUsed = {} /\ rChain = <<>>
    /\ fs = <<>> /\ cwd = <<>> /\ destOutputPath = <<>> /\ fpc = "idle" /\ outResult = [err |-> "unset"]
    /\ pending = {} /\ completed = <<>>
    /\ txOptions = <<>> /\ gateway = <<>> /\ tpc = "idle" /\ txOut = [exit |-> "unset"]
    /\ spc = "idle" /\ sIter = 0 /\ sTasks = <<>>

\* const hierarchy = FolderHierarchy.newFromEntities(allFolderEntitiesOfDrive)
NewFromEntities ==
    /\ hpc = "entities"
    /\ hierarchy' = newFromEntities(entities)
    /\ hpc' = IF hierarchy'.err = "none" THEN "built" ELSE "failed"
    /\ UNCHANGED <<entities, subTree, pathResult, withPaths, qvars, pvars, ovars, lvars, avars, dvars, rvars, fvars, bvars, tvars, svars>>

\* hierarchy.subTreeOf(folderId)
SubTreeOf ==
    /\ hpc = "built"
    /\ \E folderId \in Range(hierarchy.keys) \cup {AbsentId} :
          subTree' = [of |-> folderId, h |-> subTreeOf(hierarchy, folderId)]
    /\ hpc' = IF subTree'.h.err = "none" THEN "subtree" ELSE "failed"
    /\ UNCHANGED <<entities, hierarchy, pathResult, withPaths, qvars, pvars, ovars, lvars, avars, dvars, rvars, fvars, bvars, tvars, svars>>

PathResultOf(on, h, folderId) ==
    [on |-> on, arg |-> folderId,
     path |-> pathToFolderId(h, hierarchy, folderId),
     entityPath |-> entityPathToFolderId(h, hierarchy, folderId),
     txPath |-> txPathToFolderId(h, hierarchy, folderId)]

\* the three path methods called on the hierarchy of the whole drive
PathOnHierarchy ==
    /\ hpc = "built"
    /\ \E folderId \in Range(hierarchy.keys) \cup {ROOT_FOLDER, AbsentId} :
          pathResult' = PathResultOf("hierarchy", hierarchy, folderId)
    /\ hpc' = "done"
    /\ UNCHANGED <<entities, hierarchy, subTree, withPaths, qvars, pvars, ovars, lvars, avars, dvars, rvars, fvars, bvars, tvars, svars>>

\* the three path methods called on a hierarchy that subTreeOf returned
PathOnSubTree ==
    /\ hpc = "subtree"
    /\ \E folderId \in Range(hierarchy.keys) \cup {ROOT_FOLDER, AbsentId} :
          pathResult' = PathResultOf("subTree", subTree.h, folderId)
    /\ hpc' = "done"
    /\ UNCHANGED <<entities, hierarchy, subTree, withPaths, qvars, pvars, ovars, lvars, avars, dvars, rvars, fvars, bvars, tvars, svars>>

\* a file of the drive: its parent is one of the folders the files were
\* queried for
FileEntities ==
    {[entityId |-> "x1", parentFolderId |-> p, name |-> n, txId |-> "u1"] :
        p \in Range(hierarchy.keys), n \in Names}

\* new ArFSPublicFileOrFolderWithPaths(entity, hierarchy)
Decorate ==
    /\ hpc = "built"
    /\ \E entity \in Range(entities) \cup FileEntities :
          withPaths' = FileOrFolderWithPaths(entity, hierarchy)
    /\ hpc' = "done"
    /\ UNCHANGED <<entities, hierarchy, subTree, pathResult, qvars, pvars, ovars, lvars, avars, dvars, rvars, fvars, bvars, tvars, svars>>

HierarchyNext ==
    \/ NewFromEntities
    \/ SubTreeOf
    \/ PathOnHierarchy
    \/ PathOnSubTree
    \/ Decorate

HierarchySpec == HierarchyInit /\ [][HierarchyNext]_vars

\* The construction alone: newFromEntities applied to each input
ConstructionNext == NewFromEntities

ConstructionSpec == HierarchyInit /\ [][ConstructionNext]_vars

-----------------------------------------------------------------------------
(* What the input says, read off the entities alone.                       *)

InputIds == {entities[i].entityId : i \in 1..Len(entities)}

InputEntity(id) == entities[CHOOSE i \in 1..Len(entities) : entities[i].entityId = id]

\* x is reached from `from` in at most `fuel` parent steps of the input
RECURSIVE ReachesByParents(_, _, _)
ReachesByParents(from, x, fuel) ==
    /\ fuel > 0
    /\ from \in InputIds
    /\ \/ InputEntity(from).parentFolderId = x
       \/ ReachesByParents(InputEntity(from).parentFolderId, x, fuel - 1)

\* x is a transitive descendant of f (a child, a grandchild, ...)
IsDescendantOf(x, f) == ReachesByParents(x, f, Len(entities))

\* a valid forest with a single true root: one folder carries the root
\* sentinel as its parent, every other parent is a folder of the input, and
\* no folder is its own ancestor
ValidForest ==
    /\ Cardinality({id \in InputIds : InputEntity(id).parentFolderId = ROOT_FOLDER}) = 1
    /\ \A id \in InputIds :
          InputEntity(id).parentFolderId \in InputIds \cup {ROOT_FOLDER}
    /\ \A id \in InputIds : ~IsDescendantOf(id, id)

TrueRootId == CHOOSE id \in InputIds : InputEntity(id).parentFolderId = ROOT_FOLDER

Built == hpc \in {"built", "subtree", "done"}

\* the number of times `id` is listed as a child in the node map
TimesListedAsChild(id) ==
    Cardinality({pi \in (DOMAIN hierarchy.nmap) \X (1..Len(entities)) :
                    /\ pi[2] <= Len(hierarchy.nmap[pi[1]].children)
                    /\ hierarchy.nmap[pi[1]].children[pi[2]] = id})

-----------------------------------------------------------------------------
(* Claims on the folder hierarchy.                                          *)

\* C2: for every valid forest (distinct ids, no cycle, single true root) the
\* construction succeeds, allFolderIDs() is exactly the set of input ids,
\* each listed once, and every input id has exactly one node in the node map,
\* attached once to its parent (the root: to none).
C2_RoundTrip ==
    (hpc # "entities" /\ ValidForest) =>
        /\ hierarchy.err = "none"
        /\ Range(allFolderIDs(hierarchy)) = InputIds
        /\ Len(allFolderIDs(hierarchy)) = Cardinality(InputIds)
        /\ DOMAIN hierarchy.nmap = InputIds
        /\ \A id \in InputIds :
              /\ hierarchy.nmap[id].folderId = id
              /\ TimesListedAsChild(id) = IF id = TrueRootId THEN 0 ELSE 1

\* C2 witness: a chain of three folders listed child first, so that the
\* construction has to resolve the parents recursively
C2_Witness ==
    /\ hpc = "built" /\ ValidForest /\ Len(entities) = 3
    /\ entities[1].parentFolderId = "f2"
    /\ entities[2].parentFolderId = "f3"

C4_SubTreeHasAllDescendants ==
    (subTree.of # "unset" /\ subTree.h.err = "none") =>
        \A x \in InputIds :
            (x = subTree.of \/ IsDescendantOf(x, subTree.of))
                => x \in Range(allFolderIDs(subTree.h))

\* C5: every id of subTreeOf(F).allFolderIDs() is F or a descendant of F in the
\* input, and F is among them.
C5_SubTreeContainment ==
    (subTree.of # "unset" /\ subTree.h.err = "none") =>
        /\ subTree.of \in Range(allFolderIDs(subTree.h))
        /\ \A x \in Range(allFolderIDs(subTree.h)) :
              x = subTree.of \/ IsDescendantOf(x, subTree.of)

\* C5 witness: the sub-tree of a folder that has a parent and a child, in a
\* drive with a folder outside that sub-tree
C5_Witness ==
    /\ hpc = "subtree" /\ ValidForest
    /\ hierarchy.nmap[subTree.of].parent # NoNode
    /\ Len(allFolderIDs(subTree.h)) = 2
    /\ Len(entities) = 3

\* the three paths of w have the same number of "/"-separated segments, the
\* last being the entity's name, id and txId, each one before it the name, id
\* and txId of one folder (the first segment, before the leading "/", is empty)
SegmentsCorrespond(w) ==
    LET names == SplitSeq(w.path, "/")
        ids == SplitSeq(w.entityIdPath, "/")
        txs == SplitSeq(w.txIdPath, "/")
        n == Len(names)
    IN  /\ Len(ids) = n /\ Len(txs) = n
        /\ names[n] = w.entity.name
        /\ ids[n] = <<w.entity.entityId>>
        /\ txs[n] = <<w.entity.txId>>
        /\ \A i \in 2..(n - 1) :
              \E f \in InputIds :
                  /\ ids[i] = <<f>>
                  /\ names[i] = InputEntity(f).name
                  /\ txs[i] = <<InputEntity(f).txId>>

\* C6 as stated: the three paths of a decorated entity have the same number of
\* "/"-separated segments, the last being the entity's name, id and txId and
\* each one before it the name, id and txId of one folder.
C6_PathSegmentsCorrespond ==
    withPaths.err = "none" => SegmentsCorrespond(withPaths)

\* what does hold of the code: the correspondence for a decorated entity when
\* neither its name nor a folder name contains "/"
PlainNamesCorrespond ==
    (/\ withPaths.err = "none"
     /\ ~Includes(withPaths.entity.name, "/")
     /\ \A f \in InputIds : ~Includes(InputEntity(f).name, "/"))
        => SegmentsCorrespond(withPaths)

\* C7: on a hierarchy returned by subTreeOf(F), F not a root of the hierarchy
\* it was taken from, each of the three path methods signals the usage
\* error, for every argument, the sentinel included.
C7_SubTreePathsSignalUsageError ==
    (pathResult.on = "subTree" /\ hierarchy.nmap[subTree.of].parent # NoNode) =>
        /\ pathResult.path = Err("Can't compute paths from sub-tree")
        /\ pathResult.entityPath = Err("Can't compute paths from sub-tree")
        /\ pathResult.txPath = Err("Can't compute paths from sub-tree")

\* C7 witness: the path of the sentinel asked of the sub-tree of a folder
\* below the root
C7_Witness ==
    /\ pathResult.on = "subTree" /\ ValidForest
    /\ hierarchy.nmap[subTree.of].parent # NoNode
    /\ pathResult.arg = ROOT_FOLDER

-----------------------------------------------------------------------------
(* Paged queries: getPublicFilesWithParentFolderIds,                        *)
(* getAllFoldersOfPublicDrive and their private twins share one loop.       *)

\* the largest number of edges that match a query
MaxEdges == 3
\* the largest unixTime of a record
MaxTime == 2
\* the largest number of edges the gateway puts on a page
PageSize == 2
\* the largest number of pages without edges that the gateway puts between
\* the others
MaxEmptyPages == 1

EntityIds == {"e1", "e2"}
CursorPool == <<"c1", "c2", "c3", "c4", "c5">>

\* what the gateway holds for the query: edge i carries the i-th cursor and
\* the i-th txId; any entity id and any unixTime on any edge, so an entity
\* has several revisions and revisions share timestamps
Ledgers ==
    UNION {
        { [i \in 1..n |-> [cursor |-> CursorPool[i],
                           node |-> [entityId |-> es[i],
                                     unixTime |-> ts[i],
                                     txId |-> TxPool[i]]]] :
            es \in [1..n -> EntityIds], ts \in [1..n -> 1..MaxTime] } :
        n \in 0..MaxEdges }

\* the position in the ledger of the edge with cursor c (0 for the empty cursor)
PositionOf(c) ==
    IF c = "" THEN 0
    ELSE CHOOSE i \in 1..Len(ledger) : ledger[i].cursor = c

\* Array.prototype.filter with a callback (element, index, array)
FilterSeq(all, Keep(_, _)) ==
    LET kept == {i \in 1..Len(all) : Keep(all, i)}
    IN  [k \in 1..Cardinality(kept) |->
            all[CHOOSE i \in kept : Cardinality({j \in kept : j < i}) = k - 1]]

\* lastRevisionFilter of utils/filter_methods: the callback keeps the entity
\* that, among the entities of its id, has the largest unixTime, the first of
\* them in the array's order when several share it
lastRevisionFilter(all, i) ==
    \A j \in 1..Len(all) :
        all[j].entityId = all[i].entityId =>
            \/ all[j].unixTime < all[i].unixTime
            \/ all[j].unixTime = all[i].unixTime /\ j >= i

\* a variant of the return statement with the branches of the ternary swapped
GetAllResult_Swapped(latest, all) ==
    IF latest THEN all ELSE FilterSeq(all, lastRevisionFilter)

\* return latestRevisionsOnly ? allFiles.filter(lastRevisionFilter) : allFiles
GetAllResult(latest, all) ==
    IF latest THEN FilterSeq(all, lastRevisionFilter) ELSE all

\* the entity a builder makes of an edge's node
BuildEntity(node) == node

QueryInit ==
    /\ ledger \in Ledgers
    /\ latestRevisionsOnly \in BOOLEAN
    /\ qpc = "loop"
    /\ cursor = ""
    /\ hasNextPage = TRUE
    /\ allFiles = <<>>
    /\ queries = <<>>
    /\ listing = <<>>
    \* the other components are at rest
    /\ entities = <<>> /\ hpc = "idle" /\ hierarchy = [err |-> "unset"]
    /\ subTree = [of |-> "unset"] /\ pathResult = [on |-> "unset"]
    /\ withPaths = [err |-> "unset"]
    /\ ppc = "idle" /\ prepInput = <<>> /\ prepObject = <<>> /\ prepError = "none"
    /\ contract = <<>> /\ oracleCalls = 0 /\ tipCall = <<>> /\ holderCall = <<>>
    /\ drive = <<>> /\ lpc = "idle" /\ listArg = "" /\ listWork = <<>> /\ listed = [err |-> "unset"]
    /\ apc = "idle" /\ aInput = <<>> /\ aTrx = <<>> /\ aTasks = <<>> /\ aResult = [err |-> "unset"]
    /\ dryRun = FALSE /\ dOp = <<>> /\ dpc = [at |-> "idle"] /\ dLocal = <<>> /\ dTrx = <<>> /\ dUploader = <<>> /\ dChain = <<>> /\ dLog = <<>> /\ dResult = [err |-> "unset"] /\ dLookup = [err |-> "unset"]
    /\ rOp = <<>> /\ rpc = [at |-> "idle"] /\ rAttempt = 0 /\ rIds = <<>> /\ rUsed = {} /\ rChain = <<>>
    /\ fs = <<>> /\ cwd = <<>> /\ destOutputPath = <<>> /\ fpc = "idle" /\ outResult = [err |-> "unset"]
    /\ pending = {} /\ completed = <<>>
    /\ txOptions = <<>> /\ gateway = <<>> /\ tpc = "idle" /\ txOut = [exit |-> "unset"]
    /\ spc = "idle" /\ sIter = 0 /\ sTasks = <<>>

\* the pages without edges among the answers so far
EmptyPages(qs) == Cardinality({i \in 1..Len(qs) : qs[i].edges = 0})

\* a variant of the callbacks that leaves the cursor of the first edge of the
\* page
NextCursor_FirstEdge(c, edges) ==
    IF Len(edges) = 0 THEN c ELSE edges[1].cursor

\* a variant that starts over after a page without edges
NextCursor_ResetOnEmpty(c, edges) ==
    IF Len(edges) = 0 THEN "" ELSE edges[Len(edges)].cursor

\* cursor = edge.cursor in the callback of every edge, run in the order of
\* the page before the first await: the cursor of the last edge, the cursor
\* as it was for a page without edges
NextCursor(c, edges) ==
    IF Len(edges) = 0 THEN c ELSE edges[Len(edges)].cursor

\* one round of the while loop: the query with the current cursor, the
\* page's edges built in the order of the page (each callback sets the cursor
\* before its first await), the built entities appended.  The gateway answers
\* with the next k edges after the cursor, k possibly 0 while edges remain,
\* and says whether more remain.
FetchPage ==
    /\ qpc = "loop"
    /\ hasNextPage
    /\ LET from == PositionOf(cursor)
           remaining == Len(ledger) - from
       IN \E k \in 0..PageSize :
            /\ k <= remaining
            /\ (k = 0 /\ remaining > 0) => EmptyPages(queries) < MaxEmptyPages
            /\ LET edges == SubSeq(ledger, from + 1, from + k)
               IN /\ queries' = Append(queries, [cursor |-> cursor, edges |-> k,
                                                 page |-> edges,
                                                 hasNextPage |-> (from + k < Len(ledger))])
                  /\ hasNextPage' = (from + k < Len(ledger))
                  /\ cursor' = NextCursor(cursor, edges)
                  /\ allFiles' = allFiles \o [i \in 1..k |-> BuildEntity(edges[i].node)]
    /\ UNCHANGED <<ledger, latestRevisionsOnly, qpc, listing, hvars, pvars, ovars, lvars, avars, dvars, rvars, fvars, bvars, tvars, svars>>

\* the return after the loop
ReturnAll ==
    /\ qpc = "loop"
    /\ ~hasNextPage
    /\ listing' = GetAllResult(latestRevisionsOnly, allFiles)
    /\ qpc' = "returned"
    /\ UNCHANGED <<ledger, latestRevisionsOnly, cursor, hasNextPage, allFiles, queries,
                   hvars, pvars, ovars, lvars, avars, dvars, rvars, fvars, bvars, tvars, svars>>

QueryNext ==
    \/ FetchPage
    \/ ReturnAll

QuerySpec == QueryInit /\ [][QueryNext]_vars

\* the loop runs on: the operation is awaited by its caller and every await
\* in it is on an answer of the gateway or on a builder
QueryLiveSpec == QueryInit /\ [][QueryNext]_vars /\ WF_vars(QueryNext)

-----------------------------------------------------------------------------
(* The builders of a page.  edges.map starts the callback of every edge in  *)
(* the order of the page; each runs up to its first await, and the builders *)
(* complete in any order before Promise.all hands their entities on.        *)

\* a variant of the rest of a callback in which the cursor is set once the
\* builder has been awaited
CursorAfterBuild_Assign(c, edge) == edge.cursor

\* the rest of a callback after its await: the builder builds the entity and
\* the cursor is left as it is
CursorAfterBuild(c, edge) == c

\* the edges of the page being built
CurrentPage == queries[Len(queries)].page

BuildersInit ==
    /\ ledger \in Ledgers
    /\ latestRevisionsOnly \in BOOLEAN
    /\ qpc = "loop"
    /\ cursor = ""
    /\ hasNextPage = TRUE
    /\ allFiles = <<>>
    /\ queries = <<>>
    /\ listing = <<>>
    /\ pending = {}
    /\ completed = <<>>
    \* the other components are at rest
    /\ entities = <<>> /\ hpc = "idle" /\ hierarchy = [err |-> "unset"]
    /\ subTree = [of |-> "unset"] /\ pathResult = [on |-> "unset"]
    /\ withPaths = [err |-> "unset"]
    /\ ppc = "idle" /\ prepInput = <<>> /\ prepObject = <<>> /\ prepError = "none"
    /\ contract = <<>> /\ oracleCalls = 0 /\ tipCall = <<>> /\ holderCall = <<>>
    /\ drive = <<>> /\ lpc = "idle" /\ listArg = "" /\ listWork = <<>> /\ listed = [err |-> "unset"]
    /\ apc = "idle" /\ aInput = <<>> /\ aTrx = <<>> /\ aTasks = <<>> /\ aResult = [err |-> "unset"]
    /\ dryRun = FALSE /\ dOp = <<>> /\ dpc = [at |-> "idle"] /\ dLocal = <<>> /\ dTrx = <<>> /\ dUploader = <<>> /\ dChain = <<>> /\ dLog = <<>> /\ dResult = [err |-> "unset"] /\ dLookup = [err |-> "unset"]
    /\ rOp = <<>> /\ rpc = [at |-> "idle"] /\ rAttempt = 0 /\ rIds = <<>> /\ rUsed = {} /\ rChain = <<>>
    /\ fs = <<>> /\ cwd = <<>> /\ destOutputPath = <<>> /\ fpc = "idle" /\ outResult = [err |-> "unset"]
    /\ txOptions = <<>> /\ gateway = <<>> /\ tpc = "idle" /\ txOut = [exit |-> "unset"]
    /\ spc = "idle" /\ sIter = 0 /\ sTasks = <<>>

\* the query with the current cursor and edges.map: every callback runs up
\* to its await, so the cursor is set edge by edge in the order of the page
IssueQuery ==
    /\ qpc = "loop"
    /\ hasNextPage
    /\ LET from == PositionOf(cursor)
           remaining == Len(ledger) - from
       IN \E k \in 0..PageSize :
            /\ k <= remaining
            /\ (k = 0 /\ remaining > 0) => EmptyPages(queries) < MaxEmptyPages
            /\ LET edges == SubSeq(ledger, from + 1, from + k)
               IN /\ queries' = Append(queries, [cursor |-> cursor, edges |-> k,
                                                 page |-> edges,
                                                 hasNextPage |-> (from + k < Len(ledger)),
                                                 outstanding |-> Cardinality(pending)])
                  /\ hasNextPage' = (from + k < Len(ledger))
                  /\ cursor' = NextCursor(cursor, edges)
                  /\ pending' = 1..k
                  /\ completed' = <<>>
    /\ qpc' = "building"
    /\ UNCHANGED <<ledger, latestRevisionsOnly, allFiles, listing,
                   hvars, pvars, ovars, lvars, avars, dvars, rvars, fvars, tvars, svars>>

\* the builder of one edge completes: any of those outstanding
BuilderCompletes ==
    /\ qpc = "building"
    /\ \E i \in pending :
          /\ cursor' = CursorAfterBuild(cursor, CurrentPage[i])
          /\ pending' = pending \ {i}
          /\ completed' = Append(completed, i)
    /\ UNCHANGED <<ledger, latestRevisionsOnly, qpc, hasNextPage, allFiles, queries, listing,
                   hvars, pvars, ovars, lvars, avars, dvars, rvars, fvars, tvars, svars>>

\* the builder of one edge fails: Promise.all rejects and the operation throws
BuilderRejects ==
    /\ qpc = "building"
    /\ pending # {}
    /\ qpc' = "thrown"
    /\ UNCHANGED <<ledger, latestRevisionsOnly, cursor, hasNextPage, allFiles, queries,
                   listing, pending, completed,
                   hvars, pvars, ovars, lvars, avars, dvars, rvars, fvars, tvars, svars>>

\* allFiles.push(...(await Promise.all(files))): the entities in the order
\* of the page, once every builder has completed
JoinBuilders ==
    /\ qpc = "building"
    /\ pending = {}
    /\ allFiles' = allFiles \o [i \in 1..Len(CurrentPage) |-> BuildEntity(CurrentPage[i].node)]
    /\ qpc' = "loop"
    /\ UNCHANGED <<ledger, latestRevisionsOnly, cursor, hasNextPage, queries, listing,
                   pending, completed,
                   hvars, pvars, ovars, lvars, avars, dvars, rvars, fvars, tvars, svars>>

\* the return after the loop
ReturnBuilt ==
    /\ qpc = "loop"
    /\ ~hasNextPage
    /\ listing' = GetAllResult(latestRevisionsOnly, allFiles)
    /\ qpc' = "returned"
    /\ UNCHANGED <<ledger, latestRevisionsOnly, cursor, hasNextPage, allFiles, queries,
                   pending, completed,
                   hvars, pvars, ovars, lvars, avars, dvars, rvars, fvars, tvars, svars>>

BuildersNext ==
    \/ IssueQuery
    \/ BuilderCompletes
    \/ BuilderRejects
    \/ JoinBuilders
    \/ ReturnBuilt

BuildersSpec == BuildersInit /\ [][BuildersNext]_vars

-----------------------------------------------------------------------------
(* Claims on the paged queries.                                             *)

\* the indices of seq whose record carries the entity id
IndicesOf(seq, id) == {i \in 1..Len(seq) : seq[i].entityId = id}

\* C1: with latestRevisionsOnly, what a get-all operation returns holds exactly
\* one record per distinct entity id of the collected records, and that record
\* has the largest unixTime among the collected records of its id.
C1_RevisionReduction ==
    (qpc = "returned" /\ latestRevisionsOnly) =>
        \A id \in EntityIds :
            /\ Cardinality(IndicesOf(listing, id))
                 = IF IndicesOf(allFiles, id) = {} THEN 0 ELSE 1
            /\ \A i \in IndicesOf(listing, id) :
                  /\ listing[i] \in Range(allFiles)
                  /\ \A j \in IndicesOf(allFiles, id) :
                        allFiles[j].unixTime <= listing[i].unixTime

\* C1 witness: three records were collected, two of them revisions of one
\* entity with the newer one first, and two records were returned
C1_Witness ==
    /\ qpc = "returned" /\ latestRevisionsOnly
    /\ Len(allFiles) = 3 /\ Len(listing) = 2
    /\ \E i, j \in 1..3 :
          /\ i < j
          /\ allFiles[i].entityId = allFiles[j].entityId
          /\ allFiles[i].unixTime > allFiles[j].unixTime

-----------------------------------------------------------------------------
(* Preparing an ArFS object: prepareArFSObjectTransaction and               *)
(* prepareArFSObjectDataItem.                                               *)

\* the largest number of caller-supplied tags
MaxOtherTags == 2

DEFAULT_APP_NAME == "ArDrive-CLI"
DEFAULT_APP_VERSION == "2.0"
CURRENT_ARFS_VERSION == "0.11"

Tag(name, value) == [name |-> name, value |-> value]

\* the tag names of the protocol, which a caller tag may not carry
ProtectedTagNames ==
    {"App-Name", "App-Version", "ArFS", "Entity-Type", "Drive-Id", "Folder-Id",
     "Parent-Folder-Id", "File-Id", "Drive-Privacy", "Content-Type", "Boost",
     "Tip-Type", "Cipher", "Cipher-IV"}

\* the object prototypes: entity kind (fileData: the raw bytes of a file) x privacy
Prototypes ==
    [entityType : {"drive", "folder", "file", "fileData"}, private : BOOLEAN]

\* the tags a prototype adds (addTagsToTransaction, addTagsToDataItem)
ObjectTags(proto) ==
    (IF proto.entityType = "fileData"
     THEN <<Tag("Content-Type", "application/octet-stream")>>
     ELSE <<Tag("Content-Type", "application/json"),
            Tag("Entity-Type", proto.entityType),
            Tag("Drive-Id", "drive-id")>>)
    \o (IF proto.entityType = "drive"
        THEN <<Tag("Drive-Privacy", IF proto.private THEN "private" ELSE "public")>>
        ELSE IF proto.entityType = "folder"
        THEN <<Tag("Folder-Id", "folder-id"), Tag("Parent-Folder-Id", "parent-id")>>
        ELSE IF proto.entityType = "file"
        THEN <<Tag("File-Id", "file-id"), Tag("Parent-Folder-Id", "parent-id")>>
        ELSE <<>>)
    \o (IF proto.private
        THEN <<Tag("Cipher", "AES256-GCM"), Tag("Cipher-IV", "iv")>>
        ELSE <<>>)

\* assertProtectedTags: TRUE when it throws
assertProtectedTags(proto, tags) ==
    \E i \in 1..Len(tags) : tags[i].name \in ProtectedTagNames

\* the tags a caller may pass: protocol names and a name of its own, each
\* with a value the protocol uses and one it does not
CallerTags == [name : {"ArFS", "Entity-Type", "Custom-Tag"}, value : {"folder", "x"}]

OtherTagLists == UNION {[1..n -> CallerTags] : n \in 0..MaxOtherTags}

\* reward settings: reward 0 is "no reward given"; feeMultiple is in tenths,
\* 0 for "none given"
\* (the multiples are binary fractions, so the product of the code, a double,
\* is the exact product)
FeeMultipleText == (5 :> "0.5") @@ (10 :> "1") @@ (15 :> "1.5") @@ (25 :> "2.5")
RewardSettings == [reward : {0, 7}, feeMultiple : {0} \cup DOMAIN FeeMultipleText]

\* the reward the network estimates for a transaction
BaseRewards == {3}

\* Math.ceil(reward * feeMultiple), feeMultiple in tenths
BoostedReward(reward, feeMultiple) == (reward * feeMultiple + 9) \div 10

\* a variant that boosts from a fee multiple of 1.0 on
Boosts_FromOne(rewardSettings) == rewardSettings.feeMultiple >= 10

\* rewardSettings.feeMultiple && rewardSettings.feeMultiple > 1.0
Boosts(rewardSettings) == rewardSettings.feeMultiple > 10

\* the transaction after createTransaction and the boost of its reward
CreateTransactionOf(rewardSettings, baseReward) ==
    LET reward == IF rewardSettings.reward # 0 THEN rewardSettings.reward ELSE baseReward
    IN  [kind |-> "transaction",
         reward |-> IF Boosts(rewardSettings)
                    THEN BoostedReward(reward, rewardSettings.feeMultiple)
                    ELSE reward,
         tags |-> <<>>,
         signed |-> FALSE]

\* the tags of the protocol on a transaction: the baseline tags, the Boost
\* tag, the tags of the prototype
ProtocolTags(proto, rewardSettings) ==
    <<Tag("App-Name", DEFAULT_APP_NAME),
      Tag("App-Version", DEFAULT_APP_VERSION),
      Tag("ArFS", CURRENT_ARFS_VERSION)>>
    \o (IF Boosts(rewardSettings)
        THEN <<Tag("Boost", FeeMultipleText[rewardSettings.feeMultiple])>>
        ELSE <<>>)
    \o ObjectTags(proto)

\* the caller tags of `tags` before the first protected one
RECURSIVE UnprotectedPrefix(_)
UnprotectedPrefix(tags) ==
    IF Len(tags) = 0 \/ tags[1].name \in ProtectedTagNames THEN <<>>
    ELSE <<tags[1]>> \o UnprotectedPrefix(Tail(tags))

\* a variant of the tagging that checks each caller tag as it adds it
TagTransaction_CheckWhileAdding(transaction, proto, rewardSettings, otherTags) ==
    LET tagged == [transaction EXCEPT !.tags = ProtocolTags(proto, rewardSettings)]
    IN  IF assertProtectedTags(proto, otherTags)
        THEN [err |-> "validation",
              obj |-> [tagged EXCEPT !.tags = @ \o UnprotectedPrefix(otherTags)]]
        ELSE [err |-> "none", obj |-> [tagged EXCEPT !.tags = @ \o otherTags]]

\* prepareArFSObjectTransaction from the baseline tags to the caller tags
TagTransaction(transaction, proto, rewardSettings, otherTags) ==
    LET tagged == [transaction EXCEPT !.tags = ProtocolTags(proto, rewardSettings)]
    IN  IF assertProtectedTags(proto, otherTags)
        THEN [err |-> "validation", obj |-> tagged]
        ELSE [err |-> "none", obj |-> [tagged EXCEPT !.tags = @ \o otherTags]]

\* prepareArFSObjectDataItem from the baseline tags to the caller tags
TagDataItem(proto, otherTags) ==
    LET tags == <<Tag("App-Name", DEFAULT_APP_NAME),
                  Tag("App-Version", DEFAULT_APP_VERSION),
                  Tag("ArFS", CURRENT_ARFS_VERSION)>>
                \o ObjectTags(proto)
        item == [kind |-> "dataItem", reward |-> 0, tags |-> tags, signed |-> FALSE]
    IN  IF assertProtectedTags(proto, otherTags)
        THEN [err |-> "validation", obj |-> item]
        ELSE [err |-> "none", obj |-> [item EXCEPT !.tags = @ \o otherTags]]

PrepareInputs ==
    [kind : {"transaction"}, proto : Prototypes, rewardSettings : RewardSettings,
     baseReward : BaseRewards, otherTags : OtherTagLists]
    \cup
    [kind : {"dataItem"}, proto : Prototypes, rewardSettings : {[reward |-> 0, feeMultiple |-> 0]},
     baseReward : {0}, otherTags : OtherTagLists]

PrepareInit ==
    /\ prepInput \in PrepareInputs
    /\ ppc = "start"
    /\ prepObject = [kind |-> "unset", tags |-> <<>>, signed |-> FALSE]
    /\ prepError = "none"
    \* the other components are at rest
    /\ entities = <<>> /\ hpc = "idle" /\ hierarchy = [err |-> "unset"]
    /\ subTree = [of |-> "unset"] /\ pathResult = [on |-> "unset"]
    /\ withPaths = [err |-> "unset"]
    /\ ledger = <<>> /\ latestRevisionsOnly = FALSE /\ qpc = "idle" /\ cursor = ""
    /\ hasNextPage = TRUE /\ allFiles = <<>> /\ queries = <<>> /\ listing = <<>>
    /\ contract = <<>> /\ oracleCalls = 0 /\ tipCall = <<>> /\ holderCall = <<>>
    /\ drive = <<>> /\ lpc = "idle" /\ listArg = "" /\ listWork = <<>> /\ listed = [err |-> "unset"]
    /\ apc = "idle" /\ aInput = <<>> /\ aTrx = <<>> /\ aTasks = <<>> /\ aResult = [err |-> "unset"]
    /\ dryRun = FALSE /\ dOp = <<>> /\ dpc = [at |-> "idle"] /\ dLocal = <<>> /\ dTrx = <<>> /\ dUploader = <<>> /\ dChain = <<>> /\ dLog = <<>> /\ dResult = [err |-> "unset"] /\ dLookup = [err |-> "unset"]
    /\ rOp = <<>> /\ rpc = [at |-> "idle"] /\ rAttempt = 0 /\ rIds = <<>> /\ rUsed = {} /\ rChain = <<>>
    /\ fs = <<>> /\ cwd = <<>> /\ destOutputPath = <<>> /\ fpc = "idle" /\ outResult = [err |-> "unset"]
    /\ pending = {} /\ completed = <<>>
    /\ txOptions = <<>> /\ gateway = <<>> /\ tpc = "idle" /\ txOut = [exit |-> "unset"]
    /\ spc = "idle" /\ sIter = 0 /\ sTasks = <<>>

\* prepareArFSObjectTransaction up to the await of createTransaction
CreateTransaction ==
    /\ ppc = "start"
    /\ prepInput.kind = "transaction"
    /\ prepObject' = CreateTransactionOf(prepInput.rewardSettings, prepInput.baseReward)
    /\ ppc' = "created"
    /\ UNCHANGED <<prepInput, prepError, hvars, qvars, ovars, lvars, avars, dvars, rvars, fvars, bvars, tvars, svars>>

\* prepareArFSObjectTransaction from there to the await of sign
TagAndAssertTransaction ==
    /\ ppc = "created"
    /\ LET r == TagTransaction(prepObject, prepInput.proto, prepInput.rewardSettings,
                               prepInput.otherTags)
       IN /\ prepObject' = r.obj
          /\ prepError' = r.err
          /\ ppc' = IF r.err = "none" THEN "tagged" ELSE "failed"
    /\ UNCHANGED <<prepInput, hvars, qvars, ovars, lvars, avars, dvars, rvars, fvars, bvars, tvars, svars>>

\* prepareArFSObjectDataItem up to createData
TagAndAssertDataItem ==
    /\ ppc = "start"
    /\ prepInput.kind = "dataItem"
    /\ LET r == TagDataItem(prepInput.proto, prepInput.otherTags)
       IN /\ prepObject' = r.obj
          /\ prepError' = r.err
          /\ ppc' = IF r.err = "none" THEN "tagged" ELSE "failed"
    /\ UNCHANGED <<prepInput, hvars, qvars, ovars, lvars, avars, dvars, rvars, fvars, bvars, tvars, svars>>

\* arweave.transactions.sign(transaction), dataItem.sign(signer)
Sign ==
    /\ ppc = "tagged"
    /\ prepObject' = [prepObject EXCEPT !.signed = TRUE]
    /\ ppc' = "signed"
    /\ UNCHANGED <<prepInput, prepError, hvars, qvars, ovars, lvars, avars, dvars, rvars, fvars, bvars, tvars, svars>>

PrepareNext ==
    \/ CreateTransaction
    \/ TagAndAssertTransaction
    \/ TagAndAssertDataItem
    \/ Sign

PrepareSpec == PrepareInit /\ [][PrepareNext]_vars

-----------------------------------------------------------------------------
(* Preparing a bundle: prepareArFSObjectBundle.                             *)

\* the tags a caller may pass with a bundle: baseline names and a name of
\* its own
BundleCallerTags ==
    [name : {"App-Name", "App-Version", "Custom-Tag"}, value : {DEFAULT_APP_NAME, "x"}]

\* the data items bundled: one of any prototype, or the root folder and the
\* drive of a bundled drive creation
BundleInputs ==
    [kind : {"bundle"},
     dataItems : {<<proto>> : proto \in Prototypes}
                 \cup {<<[entityType |-> "folder", private |-> FALSE],
                         [entityType |-> "drive", private |-> FALSE]>>},
     otherTags : UNION {[1..n -> BundleCallerTags] : n \in 0..MaxOtherTags}]

\* bundle.toTransaction of arbundles: the outer transaction with the tags
\* that name the bundle format
BundleToTransactionOf(dataItems) ==
    [kind |-> "bundle",
     reward |-> 3,
     tags |-> <<Tag("Bundle-Format", "binary"), Tag("Bundle-Version", "2.0.0")>>,
     signed |-> FALSE]

\* prepareArFSObjectBundle from the baseline tags to the caller tags: no
\* assertion stands between them
TagBundle(transaction, otherTags) ==
    [err |-> "none",
     obj |-> [transaction EXCEPT !.tags =
                 @ \o <<Tag("App-Name", DEFAULT_APP_NAME),
                        Tag("App-Version", DEFAULT_APP_VERSION)>>
                   \o otherTags]]

BundleInit ==
    /\ prepInput \in BundleInputs
    /\ ppc = "start"
    /\ prepObject = [kind |-> "unset", tags |-> <<>>, signed |-> FALSE]
    /\ prepError = "none"
    \* the other components are at rest
    /\ entities = <<>> /\ hpc = "idle" /\ hierarchy = [err |-> "unset"]
    /\ subTree = [of |-> "unset"] /\ pathResult = [on |-> "unset"]
    /\ withPaths = [err |-> "unset"]
    /\ ledger = <<>> /\ latestRevisionsOnly = FALSE /\ qpc = "idle" /\ cursor = ""
    /\ hasNextPage = TRUE /\ allFiles = <<>> /\ queries = <<>> /\ listing = <<>>
    /\ contract = <<>> /\ oracleCalls = 0 /\ tipCall = <<>> /\ holderCall = <<>>
    /\ drive = <<>> /\ lpc = "idle" /\ listArg = "" /\ listWork = <<>> /\ listed = [err |-> "unset"]
    /\ apc = "idle" /\ aInput = <<>> /\ aTrx = <<>> /\ aTasks = <<>> /\ aResult = [err |-> "unset"]
    /\ dryRun = FALSE /\ dOp = <<>> /\ dpc = [at |-> "idle"] /\ dLocal = <<>> /\ dTrx = <<>> /\ dUploader = <<>> /\ dChain = <<>> /\ dLog = <<>> /\ dResult = [err |-> "unset"] /\ dLookup = [err |-> "unset"]
    /\ rOp = <<>> /\ rpc = [at |-> "idle"] /\ rAttempt = 0 /\ rIds = <<>> /\ rUsed = {} /\ rChain = <<>>
    /\ fs = <<>> /\ cwd = <<>> /\ destOutputPath = <<>> /\ fpc = "idle" /\ outResult = [err |-> "unset"]
    /\ pending = {} /\ completed = <<>>
    /\ txOptions = <<>> /\ gateway = <<>> /\ tpc = "idle" /\ txOut = [exit |-> "unset"]
    /\ spc = "idle" /\ sIter = 0 /\ sTasks = <<>>

\* prepareArFSObjectBundle up to the await of bundle.toTransaction
BundleToTransaction ==
    /\ ppc = "start"
    /\ prepInput.kind = "bundle"
    /\ prepObject' = BundleToTransactionOf(prepInput.dataItems)
    /\ ppc' = "created"
    /\ UNCHANGED <<prepInput, prepError, hvars, qvars, ovars, lvars, avars, dvars, rvars, fvars, bvars, tvars, svars>>

\* prepareArFSObjectBundle from there to the await of sign
TagTheBundle ==
    /\ ppc = "created"
    /\ prepInput.kind = "bundle"
    /\ LET r == TagBundle(prepObject, prepInput.otherTags)
       IN /\ prepObject' = r.obj
          /\ prepError' = r.err
          /\ ppc' = IF r.err = "none" THEN "tagged" ELSE "failed"
    /\ UNCHANGED <<prepInput, hvars, qvars, ovars, lvars, avars, dvars, rvars, fvars, bvars, tvars, svars>>

BundleNext ==
    \/ BundleToTransaction
    \/ TagTheBundle
    \/ Sign

BundleSpec == BundleInit /\ [][BundleNext]_vars

-----------------------------------------------------------------------------
(* Claims on the preparation of ArFS objects.                               *)

\* a caller tag of the input carries the name of a protocol tag
CallerTagCollides ==
    \E i \in 1..Len(prepInput.otherTags) :
        prepInput.otherTags[i].name \in ProtectedTagNames

\* the tags of the protocol on the object being prepared
ExpectedProtocolTags ==
    IF prepInput.kind = "transaction"
    THEN ProtocolTags(prepInput.proto, prepInput.rewardSettings)
    ELSE ProtocolTags(prepInput.proto, [reward |-> 0, feeMultiple |-> 0])

\* C8: when a caller tag carries the name of a protocol tag, whatever its
\* value, preparing a transaction or a data item fails with a validation
\* error at the tag assertion: the object then carries the protocol tags and
\* no caller tag, and is not signed; a signed object never carries a caller
\* tag with a protocol name.
C8_ProtectedTagsRejected ==
    /\ (CallerTagCollides /\ ppc \notin {"start", "created"}) =>
          /\ ppc = "failed"
          /\ prepError = "validation"
          /\ prepObject.tags = ExpectedProtocolTags
          /\ ~prepObject.signed
    /\ prepObject.signed =>
          /\ ~CallerTagCollides
          /\ prepObject.tags = ExpectedProtocolTags \o prepInput.otherTags

\* C8 witness: the second of two caller tags is named ArFS, the first has a
\* name of its own, and the preparation of a transaction has failed
C8_Witness ==
    /\ ppc = "failed" /\ prepError = "validation"
    /\ prepInput.kind = "transaction"
    /\ Len(prepInput.otherTags) = 2
    /\ prepInput.otherTags[1].name = "Custom-Tag"
    /\ prepInput.otherTags[2].name = "ArFS"

-----------------------------------------------------------------------------
(* The community oracle: getCommunityARTip and selectTokenHolder.  Amounts  *)
(* of AR are counted in units of 0.00000001 AR; the costs and percentages   *)
(* below make every product exact.                                          *)

\* the largest balance of an address, and of a lock of a vault
MaxBalance == 1
\* the largest number of locks in the vault of an address
MaxLocks == 1
\* the largest number of oracle calls in a run
MaxCalls == 2

\* 0.000_010_000_000 AR
minArDriveCommunityARTip == 1000

Addresses == {"w1", "w2"}
ArCosts == {0, 100, 1000000}
TipPercentages == {0, 15, 100}

Max(a, b) == IF a >= b THEN a ELSE b

RECURSIVE SumSeq(_)
SumSeq(q) == IF Len(q) = 0 THEN 0 ELSE q[1] + SumSeq(Tail(q))

\* sequences over S without repetition: the key orders of an object
KeyOrders(S) ==
    {q \in UNION {[1..n -> S] : n \in 0..Cardinality(S)} :
        \A i, j \in 1..Len(q) : i # j => q[i] # q[j]}

\* an object of numbers: its keys in insertion order and their values
BalanceTables ==
    UNION {{[keys |-> k, of |-> f] : f \in [Range(k) -> 0..MaxBalance]} :
           k \in KeyOrders(Addresses)}

LockLists == UNION {[1..n -> 1..MaxBalance] : n \in 0..MaxLocks}

VaultTables ==
    UNION {{[keys |-> k, of |-> f] : f \in [Range(k) -> LockLists]} :
           k \in KeyOrders(Addresses)}

Contracts == [balances : BalanceTables, vault : VaultTables]

\* a variant of the tip without the floor
getCommunityARTip_NoFloor(arCost, communityTipValue) ==
    (arCost * communityTipValue) \div 100

\* getCommunityARTip
getCommunityARTip(arCost, communityTipValue) ==
    LET arDriveCommunityTip == (arCost * communityTipValue) \div 100
    IN  Max(arDriveCommunityTip, minArDriveCommunityARTip)

\* the sum over the keys of a balance table, in key order
RECURSIVE SumBalances(_, _)
SumBalances(keys, of) ==
    IF Len(keys) = 0 THEN 0 ELSE of[keys[1]] + SumBalances(Tail(keys), of)

\* the loop over the vault: folds the locks of each address into `total` and
\* into the balance table, which it changes in place
RECURSIVE FoldVault(_, _, _, _)
FoldVault(vkeys, vault, balances, total) ==
    IF Len(vkeys) = 0 THEN [balances |-> balances, total |-> total]
    ELSE LET addr == vkeys[1]
             vaultBalance == SumSeq(vault.of[addr])
         IN  IF Len(vault.of[addr]) = 0
             THEN FoldVault(Tail(vkeys), vault, balances, total)
             ELSE FoldVault(Tail(vkeys), vault,
                    IF Includes(balances.keys, addr)
                    THEN [balances EXCEPT !.of[addr] = @ + vaultBalance]
                    ELSE [keys |-> Append(balances.keys, addr),
                          of |-> [a \in Range(balances.keys) \cup {addr} |->
                                    IF a = addr THEN vaultBalance ELSE balances.of[a]]],
                    total + vaultBalance)

\* weightedRandom of ardrive-core-js on the table balances/total, with
\* Math.random() = draw / (2 * total): the first key whose cumulative weight
\* reaches the draw and whose weight is positive.  With total = 0 each weight
\* is NaN, no comparison holds, and the result is undefined.
RECURSIVE WeightedRandomFrom(_, _, _, _)
WeightedRandomFrom(keys, of, sum, draw) ==
    IF Len(keys) = 0 THEN NoNode
    ELSE LET newSum == sum + of[keys[1]]
         IN  IF draw <= 2 * newSum /\ of[keys[1]] > 0 THEN keys[1]
             ELSE WeightedRandomFrom(Tail(keys), of, newSum, draw)

weightedRandom(balances, total, draw) ==
    IF total = 0 THEN NoNode
    ELSE WeightedRandomFrom(balances.keys, balances.of, 0, draw)

\* the state of selectTokenHolder before the draw
FoldedContract(c) ==
    FoldVault(c.vault.keys, c.vault, c.balances, SumBalances(c.balances.keys, c.balances.of))

DEFAULT_HOLDER == "w0"

\* a variant that falls back on a fixed address
selectTokenHolder_Default(c, draw) ==
    LET folded == FoldedContract(c)
        randomHolder == weightedRandom(folded.balances, folded.total, draw)
    IN  [contract |-> [c EXCEPT !.balances = folded.balances],
         weighted |-> folded.balances,
         total |-> folded.total,
         err |-> "none",
         val |-> IF randomHolder = NoNode THEN DEFAULT_HOLDER ELSE randomHolder]

\* selectTokenHolder: the contract object after the call, the weighted table
\* (as balances over `total`), and the address returned or the error thrown
selectTokenHolder(c, draw) ==
    LET folded == FoldedContract(c)
        randomHolder == weightedRandom(folded.balances, folded.total, draw)
    IN  [contract |-> [c EXCEPT !.balances = folded.balances],
         weighted |-> folded.balances,
         total |-> folded.total,
         err |-> IF randomHolder = NoNode THEN "selection" ELSE "none",
         val |-> randomHolder]

\* the values Math.random() can take against a total, as numerators over 2 * total
Draws(total) == 0..Max(0, 2 * total - 1)

OracleInit ==
    /\ contract \in Contracts
    /\ oracleCalls = 0
    /\ tipCall = [status |-> "unset"]
    /\ holderCall = [err |-> "unset"]
    \* the other components are at rest
    /\ entities = <<>> /\ hpc = "idle" /\ hierarchy = [err |-> "unset"]
    /\ subTree = [of |-> "unset"] /\ pathResult = [on |-> "unset"]
    /\ withPaths = [err |-> "unset"]
    /\ ledger = <<>> /\ latestRevisionsOnly = FALSE /\ qpc = "idle" /\ cursor = ""
    /\ hasNextPage = TRUE /\ allFiles = <<>> /\ queries = <<>> /\ listing = <<>>
    /\ ppc = "idle" /\ prepInput = <<>> /\ prepObject = <<>> /\ prepError = "none"
    /\ drive = <<>> /\ lpc = "idle" /\ listArg = "" /\ listWork = <<>> /\ listed = [err |-> "unset"]
    /\ apc = "idle" /\ aInput = <<>> /\ aTrx = <<>> /\ aTasks = <<>> /\ aResult = [err |-> "unset"]
    /\ dryRun = FALSE /\ dOp = <<>> /\ dpc = [at |-> "idle"] /\ dLocal = <<>> /\ dTrx = <<>> /\ dUploader = <<>> /\ dChain = <<>> /\ dLog = <<>> /\ dResult = [err |-> "unset"] /\ dLookup = [err |-> "unset"]
    /\ rOp = <<>> /\ rpc = [at |-> "idle"] /\ rAttempt = 0 /\ rIds = <<>> /\ rUsed = {} /\ rChain = <<>>
    /\ fs = <<>> /\ cwd = <<>> /\ destOutputPath = <<>> /\ fpc = "idle" /\ outResult = [err |-> "unset"]
    /\ pending = {} /\ completed = <<>>
    /\ txOptions = <<>> /\ gateway = <<>> /\ tpc = "idle" /\ txOut = [exit |-> "unset"]
    /\ spc = "idle" /\ sIter = 0 /\ sTasks = <<>>

\* a call of getCommunityARTip; the tip setting is read anew on each call
GetCommunityARTip ==
    /\ oracleCalls < MaxCalls
    /\ \E arCost \in ArCosts, communityTipValue \in TipPercentages :
          tipCall' = [status |-> "done", arCost |-> arCost,
                      communityTipValue |-> communityTipValue,
                      tip |-> getCommunityARTip(arCost, communityTipValue)]
    /\ oracleCalls' = oracleCalls + 1
    /\ UNCHANGED <<contract, holderCall, hvars, qvars, pvars, lvars, avars, dvars, rvars, fvars, bvars, tvars, svars>>

\* a call of selectTokenHolder on the contract object the contract oracle holds
SelectTokenHolder ==
    /\ oracleCalls < MaxCalls
    /\ \E draw \in Draws(FoldedContract(contract).total) :
          LET r == selectTokenHolder(contract, draw)
          IN  /\ contract' = r.contract
              /\ holderCall' = [err |-> r.err, val |-> r.val, weighted |-> r.weighted,
                                total |-> r.total, before |-> contract]
    /\ oracleCalls' = oracleCalls + 1
    /\ UNCHANGED <<tipCall, hvars, qvars, pvars, lvars, avars, dvars, rvars, fvars, bvars, tvars, svars>>

OracleNext ==
    \/ GetCommunityARTip
    \/ SelectTokenHolder

OracleSpec == OracleInit /\ [][OracleNext]_vars

-----------------------------------------------------------------------------
(* Claims on the community oracle.                                          *)

\* C9: for every data cost >= 0 and every tip percentage, the community tip
\* is at least the minimum tip; the tip of cost 0 is the minimum tip, and no
\* tip is zero.
C9_TipFloor ==
    tipCall.status = "done" =>
        /\ tipCall.tip >= minArDriveCommunityARTip
        /\ (tipCall.arCost = 0 => tipCall.tip = minArDriveCommunityARTip)
        /\ tipCall.tip # 0

\* C9 witness: a tip was computed for cost 0 at a positive percentage
C9_Witness ==
    /\ tipCall.status = "done"
    /\ tipCall.arCost = 0
    /\ tipCall.communityTipValue > 0
    /\ tipCall.tip = minArDriveCommunityARTip

\* the addresses that hold a balance or a non-empty vault in contract c
HoldersOf(c) ==
    Range(c.balances.keys)
    \cup {a \in Range(c.vault.keys) : Len(c.vault.of[a]) > 0}

\* C10: selectTokenHolder returns a key of the weighted table, which is an
\* address with a balance or a non-empty vault in the contract it read, or it
\* signals a selection error; it signals the error only when no key of the
\* table has a positive weight, and it never returns an address outside the
\* table.
C10_HolderFromTableOrError ==
    holderCall.err # "unset" =>
        /\ Range(holderCall.weighted.keys) = HoldersOf(holderCall.before)
        /\ holderCall.err = "none" =>
              /\ holderCall.val \in Range(holderCall.weighted.keys)
              /\ holderCall.weighted.of[holderCall.val] > 0
        /\ holderCall.err # "none" =>
              /\ holderCall.err = "selection"
              /\ \A a \in Range(holderCall.weighted.keys) : holderCall.weighted.of[a] = 0

\* C10 witness: the table has two keys and the address returned is in it
\* only by its vault: the contract listed no balance for it
C10_Witness ==
    /\ holderCall.err = "none"
    /\ holderCall.val \notin Range(holderCall.before.balances.keys)
    /\ Len(holderCall.weighted.keys) = 2

\* C10 witness of the error: a call on a table whose keys all weigh nothing
C10_ErrorWitness ==
    /\ holderCall.err = "selection"
    /\ Len(holderCall.weighted.keys) > 0

-----------------------------------------------------------------------------
(* Listing a folder: listPublicFolder (listPrivateFolder has the same       *)
(* steps).                                                                  *)

\* the largest number of folder records on the ledger
MaxListFolders == 2
\* the largest number of file records on the ledger
MaxListFiles == 1

ListDrives == {"d1", "d2"}
\* the name of the i-th folder record, and the name of the file
ListFolderNames == <<<<"R">>, <<"A">>, <<"B">>, <<"C">>>>
ListFileName == <<"x.txt">>
FileTxPool == <<"u1", "u2", "u3">>

\* The ledger: folder i carries the i-th id; its parent is the sentinel, an
\* id without a record or any folder; its drive is any drive.  The file
\* records are revisions of one file, the i-th written at time i, each under
\* any folder or under an id without a record.
ListLedgers ==
    { [folders |-> [i \in 1..Len(x[1]) |->
                           [entityType |-> "folder", entityId |-> IdPool[i],
                            parentFolderId |-> x[1][i], name |-> ListFolderNames[i],
                            txId |-> TxPool[i], unixTime |-> 1, driveId |-> x[2][i]]],
           files |-> [i \in 1..Len(x[3]) |->
                           [entityType |-> "file", entityId |-> "x1",
                            parentFolderId |-> x[3][i], name |-> ListFileName,
                            txId |-> FileTxPool[i], unixTime |-> i, driveId |-> "d1"]]] :
        x \in UNION { [1..n -> FolderIds(n) \cup {ROOT_FOLDER, AbsentId}]
                         \X [1..n -> ListDrives]
                         \X UNION {[1..k -> FolderIds(n) \cup {AbsentId}] : k \in 0..MaxListFiles} :
                      n \in 1..MaxListFolders } }

\* the depth of the deepest chain of folders on the ledger
MaxListDepth == 3

\* Deeper ledgers: one drive whose folders form a chain, folder i + 1 under
\* folder i and the first the root folder, with the revisions of the file
\* under any of them
ChainLedgers ==
    UNION {
        { [folders |-> [i \in 1..n |->
                           [entityType |-> "folder", entityId |-> IdPool[i],
                            parentFolderId |-> IF i = 1 THEN ROOT_FOLDER ELSE IdPool[i - 1],
                            name |-> ListFolderNames[i],
                            txId |-> TxPool[i], unixTime |-> 1, driveId |-> "d1"]],
           files |-> [i \in 1..k |->
                           [entityType |-> "file", entityId |-> "x1",
                            parentFolderId |-> fp[i], name |-> ListFileName,
                            txId |-> FileTxPool[i], unixTime |-> i, driveId |-> "d1"]]] :
            fp \in [1..k -> FolderIds(n)] } :
        n \in 3..MaxListDepth, k \in 0..MaxListFiles }

\* the largest number of times the file is moved by a newer revision
MaxMoves == 1

\* Ledgers with a file that moves: one drive with the root folder R and the
\* folders A and B under it, and the revisions of one file, the i-th written
\* at time i under any of the three folders
MovedLedgers ==
    { [folders |-> [i \in 1..3 |->
                       [entityType |-> "folder", entityId |-> IdPool[i],
                        parentFolderId |-> IF i = 1 THEN ROOT_FOLDER ELSE IdPool[1],
                        name |-> ListFolderNames[i],
                        txId |-> TxPool[i], unixTime |-> 1, driveId |-> "d1"]],
       files |-> [i \in 1..Len(fp) |->
                       [entityType |-> "file", entityId |-> "x1",
                        parentFolderId |-> fp[i], name |-> ListFileName,
                        txId |-> FileTxPool[i], unixTime |-> i, driveId |-> "d1"]]] :
        fp \in UNION {[1..(m + 1) -> FolderIds(3)] : m \in 1..MaxMoves} }

\* the records of `all` that satisfy Match, in order: what a query returns
SelectSeq2(all, Match(_)) ==
    LET Keep(a, i) == Match(a[i]) IN FilterSeq(all, Keep)

\* childrenAndFolderOfFilterFactory of utils/filter_methods: keeps the
\* folders of the id list and what has one of them as its parent
childrenAndFolderOfFilter(folderIDs, entity) ==
    Includes(folderIDs, entity.parentFolderId) \/ Includes(folderIDs, entity.entityId)

\* the first failure among decorated entities, "none" without one
FirstError(decorated) ==
    IF \A i \in 1..Len(decorated) : decorated[i].err = "none" THEN "none"
    ELSE decorated[CHOOSE i \in 1..Len(decorated) :
                      /\ decorated[i].err # "none"
                      /\ \A j \in 1..(i - 1) : decorated[j].err = "none"].err

ListInit ==
    /\ drive \in ListLedgers \cup ChainLedgers \cup MovedLedgers
    /\ listArg \in {drive.folders[i].entityId : i \in 1..Len(drive.folders)} \cup {AbsentId}
    /\ lpc = "start"
    /\ listWork = [driveId |-> "unset"]
    /\ listed = [err |-> "unset"]
    \* the other components are at rest
    /\ entities = <<>> /\ hpc = "idle" /\ hierarchy = [err |-> "unset"]
    /\ subTree = [of |-> "unset"] /\ pathResult = [on |-> "unset"]
    /\ withPaths = [err |-> "unset"]
    /\ ledger = <<>> /\ latestRevisionsOnly = FALSE /\ qpc = "idle" /\ cursor = ""
    /\ hasNextPage = TRUE /\ allFiles = <<>> /\ queries = <<>> /\ listing = <<>>
    /\ ppc = "idle" /\ prepInput = <<>> /\ prepObject = <<>> /\ prepError = "none"
    /\ contract = <<>> /\ oracleCalls = 0 /\ tipCall = <<>> /\ holderCall = <<>>
    /\ apc = "idle" /\ aInput = <<>> /\ aTrx = <<>> /\ aTasks = <<>> /\ aResult = [err |-> "unset"]
    /\ dryRun = FALSE /\ dOp = <<>> /\ dpc = [at |-> "idle"] /\ dLocal = <<>> /\ dTrx = <<>> /\ dUploader = <<>> /\ dChain = <<>> /\ dLog = <<>> /\ dResult = [err |-> "unset"] /\ dLookup = [err |-> "unset"]
    /\ rOp = <<>> /\ rpc = [at |-> "idle"] /\ rAttempt = 0 /\ rIds = <<>> /\ rUsed = {} /\ rChain = <<>>
    /\ fs = <<>> /\ cwd = <<>> /\ destOutputPath = <<>> /\ fpc = "idle" /\ outResult = [err |-> "unset"]
    /\ pending = {} /\ completed = <<>>
    /\ txOptions = <<>> /\ gateway = <<>> /\ tpc = "idle" /\ txOut = [exit |-> "unset"]
    /\ spc = "idle" /\ sIter = 0 /\ sTasks = <<>>

\* const folder = await this.getPublicFolder(folderId)
ListGetFolder ==
    /\ lpc = "start"
    /\ LET IsArg(e) == e.entityId = listArg
           found == SelectSeq2(drive.folders, IsArg)
       IN  IF Len(found) = 0
           THEN /\ listed' = [err |-> "not-found"]
                /\ lpc' = "failed"
                /\ UNCHANGED listWork
           ELSE /\ listWork' = [driveId |-> found[1].driveId]
                /\ lpc' = "folder"
                /\ UNCHANGED listed
    /\ UNCHANGED <<drive, listArg, hvars, qvars, pvars, ovars, avars, dvars, rvars, fvars, bvars, tvars, svars>>

\* the folders of the drive, the hierarchy and the folder ids of the sub-tree
ListGetFolders ==
    /\ lpc = "folder"
    /\ LET InDrive(e) == e.driveId = listWork.driveId
           allFolderEntitiesOfDrive == GetAllResult(TRUE, SelectSeq2(drive.folders, InDrive))
           h == newFromEntities(allFolderEntitiesOfDrive)
           st == IF h.err = "none" THEN subTreeOf(h, listArg) ELSE h
       IN  IF st.err # "none"
           THEN /\ listed' = [err |-> st.err]
                /\ lpc' = "failed"
                /\ UNCHANGED listWork
           ELSE /\ listWork' = [driveId |-> listWork.driveId,
                                allFolderEntitiesOfDrive |-> allFolderEntitiesOfDrive,
                                hierarchy |-> h,
                                childrenFolderIDs |-> allFolderIDs(st)]
                /\ lpc' = "folders"
                /\ UNCHANGED listed
    /\ UNCHANGED <<drive, listArg, hvars, qvars, pvars, ovars, avars, dvars, rvars, fvars, bvars, tvars, svars>>

\* the files under those folders, the merge, the filter and the decoration
ListGetFiles ==
    /\ lpc = "folders"
    /\ LET UnderFolders(e) == Includes(listWork.childrenFolderIDs, e.parentFolderId)
           allFileEntitiesOfDrive == GetAllResult(TRUE, SelectSeq2(drive.files, UnderFolders))
           allEntitiesOfDrive == listWork.allFolderEntitiesOfDrive \o allFileEntitiesOfDrive
           ChildOrFolder(e) == childrenAndFolderOfFilter(listWork.childrenFolderIDs, e)
           allChildrenOfFolder == SelectSeq2(allEntitiesOfDrive, ChildOrFolder)
           mergedData == [i \in 1..Len(allChildrenOfFolder) |->
                            FileOrFolderWithPaths(allChildrenOfFolder[i], listWork.hierarchy)]
       IN  IF FirstError(mergedData) # "none"
           THEN /\ listed' = [err |-> FirstError(mergedData)]
                /\ lpc' = "failed"
           ELSE /\ listed' = [err |-> "none", val |-> mergedData]
                /\ lpc' = "done"
    /\ UNCHANGED <<drive, listArg, listWork, hvars, qvars, pvars, ovars, avars, dvars, rvars, fvars, bvars, tvars, svars>>

ListNext ==
    \/ ListGetFolder
    \/ ListGetFolders
    \/ ListGetFiles

ListSpec == ListInit /\ [][ListNext]_vars

-----------------------------------------------------------------------------
(* Claims on listing a folder.                                              *)

\* the number of segments of a path
SegmentCount(path) == Len(SplitSeq(path, "/"))

\* the drive of the scenario: root folder R, folder A under R, one file
\* x.txt under A, all in one drive, and R is the folder listed
ListScenario ==
    /\ Len(drive.folders) = 2 /\ Len(drive.files) = 1
    /\ drive.folders[1].name = <<"R">> /\ drive.folders[1].parentFolderId = ROOT_FOLDER
    /\ drive.folders[2].name = <<"A">>
    /\ drive.folders[2].parentFolderId = drive.folders[1].entityId
    /\ drive.folders[1].driveId = drive.folders[2].driveId
    /\ drive.files[1].parentFolderId = drive.folders[2].entityId
    /\ listArg = drive.folders[1].entityId

\* the entry of the listing for the entity with the id
ListedEntry(id) ==
    listed.val[CHOOSE i \in 1..Len(listed.val) : listed.val[i].entity.entityId = id]

\* the listing holds R, A and the file, once each, and the three paths of
\* each entry have the same number of segments
ListedThreeWithEqualSegments ==
    /\ listed.err = "none"
    /\ Len(listed.val) = 3
    /\ {listed.val[i].entity.entityId : i \in 1..3} = {"f1", "f2", "x1"}
    /\ \A i \in 1..3 :
          /\ SegmentCount(listed.val[i].path) = SegmentCount(listed.val[i].entityIdPath)
          /\ SegmentCount(listed.val[i].path) = SegmentCount(listed.val[i].txIdPath)

-----------------------------------------------------------------------------
(* ArDrive.uploadPublicFile and ArDrive.uploadPrivateFile: look up the      *)
(* drive, prepare the data and metadata transactions and the tip, check     *)
(* the balance, submit the three transactions and join them.                *)

\* the largest wallet balance and the largest reward of the data transaction
MaxWinston == 4

UploadTasks == {"data", "meta", "tip"}

\* what a call of the wallet DAO hands back to a caller that does not await
\* it: the answer itself, or a promise of the answer
Direct(b) == [kind |-> "boolean", val |-> b]
Promised(b) == [kind |-> "promise", val |-> b]

\* ToBoolean of such a value: a promise is an object, hence true
Truthy(v) == IF v.kind = "promise" THEN TRUE ELSE v.val

\* WalletDAO.walletHasBalance (wallet_new): whether the balance covers the
\* price; `async` says whether the method is an async one
walletHasBalance(balance, winstonPrice, async) ==
    IF async THEN Promised(balance >= winstonPrice) ELSE Direct(balance >= winstonPrice)

\* +dataTrx.reward + +commTipTrx.reward + +metaDataTrx.reward
totalWinstonPrice(trx) == trx.dataTrx.reward + trx.commTipTrx.reward + trx.metaDataTrx.reward

\* a variant of the check that awaits the answer
NotEnoughAR_Awaited(balance, trx, async) ==
    ~walletHasBalance(balance, totalWinstonPrice(trx), async).val

\* if (!this.walletDao.walletHasBalance(this.wallet, totalWinstonPrice))
NotEnoughAR(balance, trx, async) ==
    ~Truthy(walletHasBalance(balance, totalWinstonPrice(trx), async))

UploadInputs ==
    [private : BOOLEAN,
     folderOnLedger : BOOLEAN,        \* getDriveIdForFolderId finds the parent folder
     driveOnLedger : BOOLEAN,         \* getPublicDrive / getPrivateDrive finds the drive
     holderFound : BOOLEAN,           \* selectTokenHolder draws a holder
     balance : 0..MaxWinston,
     dataReward : 1..(MaxWinston - 2),
     asyncWalletDao : BOOLEAN]

ArDriveUploadInit ==
    /\ aInput \in UploadInputs
    /\ apc = "start"
    /\ aTrx = [dataTrx |-> [id |-> "unset"]]
    /\ aTasks = [t \in UploadTasks |-> "idle"]
    /\ aResult = [err |-> "unset"]
    \* the other components are at rest
    /\ entities = <<>> /\ hpc = "idle" /\ hierarchy = [err |-> "unset"]
    /\ subTree = [of |-> "unset"] /\ pathResult = [on |-> "unset"]
    /\ withPaths = [err |-> "unset"]
    /\ ledger = <<>> /\ latestRevisionsOnly = FALSE /\ qpc = "idle" /\ cursor = ""
    /\ hasNextPage = TRUE /\ allFiles = <<>> /\ queries = <<>> /\ listing = <<>>
    /\ ppc = "idle" /\ prepInput = <<>> /\ prepObject = <<>> /\ prepError = "none"
    /\ contract = <<>> /\ oracleCalls = 0 /\ tipCall = <<>> /\ holderCall = <<>>
    /\ drive = <<>> /\ lpc = "idle" /\ listArg = "" /\ listWork = <<>> /\ listed = [err |-> "unset"]
    /\ dryRun = FALSE /\ dOp = <<>> /\ dpc = [at |-> "idle"] /\ dLocal = <<>> /\ dTrx = <<>> /\ dUploader = <<>> /\ dChain = <<>> /\ dLog = <<>> /\ dResult = [err |-> "unset"] /\ dLookup = [err |-> "unset"]
    /\ rOp = <<>> /\ rpc = [at |-> "idle"] /\ rAttempt = 0 /\ rIds = <<>> /\ rUsed = {} /\ rChain = <<>>
    /\ fs = <<>> /\ cwd = <<>> /\ destOutputPath = <<>> /\ fpc = "idle" /\ outResult = [err |-> "unset"]
    /\ pending = {} /\ completed = <<>>
    /\ txOptions = <<>> /\ gateway = <<>> /\ tpc = "idle" /\ txOut = [exit |-> "unset"]
    /\ spc = "idle" /\ sIter = 0 /\ sTasks = <<>>

\* const driveId = await this.arFsDao.getDriveIdForFolderId(parentFolderId)
UploadGetDriveId ==
    /\ apc = "start"
    /\ IF aInput.folderOnLedger
       THEN apc' = "driveId" /\ UNCHANGED aResult
       ELSE apc' = "failed" /\ aResult' = [err |-> "not-found"]
    /\ UNCHANGED <<aInput, aTrx, aTasks, hvars, qvars, pvars, ovars, lvars, dvars, rvars, fvars, bvars, tvars, svars>>

\* const drive = await this.arFsDao.getPublicDrive(driveId), or getPrivateDrive
UploadGetDrive ==
    /\ apc = "driveId"
    /\ IF aInput.driveOnLedger
       THEN apc' = "drive" /\ UNCHANGED aResult
       ELSE apc' = "failed" /\ aResult' = [err |-> "not-found"]
    /\ UNCHANGED <<aInput, aTrx, aTasks, hvars, qvars, pvars, ovars, lvars, dvars, rvars, fvars, bvars, tvars, svars>>

\* await this.arFsDao.preparePublicFileTransactions(...), or the private one
UploadPrepareFile ==
    /\ apc = "drive"
    /\ aTrx' = [dataTrx |-> [id |-> "data-tx", reward |-> aInput.dataReward],
                metaDataTrx |-> [id |-> "meta-tx", reward |-> 1],
                fileId |-> "file-id"]
    /\ apc' = "prepared"
    /\ UNCHANGED <<aInput, aTasks, aResult, hvars, qvars, pvars, ovars, lvars, dvars, rvars, fvars, bvars, tvars, svars>>

\* await this.communityOracle.getCommunityWinstonTip(dataTrx.reward)
UploadGetTip ==
    /\ apc = "prepared"
    /\ apc' = "tip"
    /\ UNCHANGED <<aInput, aTrx, aTasks, aResult, hvars, qvars, pvars, ovars, lvars, dvars, rvars, fvars, bvars, tvars, svars>>

\* await this.prepareCommunityTipTrx(communityWinstonTip), then without a
\* further await the price, the balance check and the three submissions that
\* Promise.all joins
UploadCheckAndSubmit ==
    /\ apc = "tip"
    /\ IF ~aInput.holderFound
       THEN /\ apc' = "failed" /\ aResult' = [err |-> "selection"]
            /\ UNCHANGED <<aTrx, aTasks, dvars, rvars, fvars, bvars, tvars, svars>>
       ELSE LET trx == [dataTrx |-> aTrx.dataTrx, metaDataTrx |-> aTrx.metaDataTrx,
                        fileId |-> aTrx.fileId,
                        commTipTrx |-> [id |-> "tip-tx", reward |-> 1]]
            IN  /\ aTrx' = trx
                /\ IF NotEnoughAR(aInput.balance, trx, aInput.asyncWalletDao)
                   THEN /\ apc' = "failed" /\ aResult' = [err |-> "validation"]
                        /\ UNCHANGED aTasks
                   ELSE /\ apc' = "submitting"
                        /\ aTasks' = [t \in UploadTasks |-> "running"]
                        /\ UNCHANGED aResult
    /\ UNCHANGED <<aInput, hvars, qvars, pvars, ovars, lvars, dvars, rvars, fvars, bvars, tvars, svars>>

\* one of the three submissions settles: uploadByChunk(dataTrx),
\* uploadByChunk(metaDataTrx), submitTransaction(commTipTrx); they go on
\* after the join has rejected
UploadTaskSettles ==
    /\ apc \in {"submitting", "failed"}
    /\ \E t \in UploadTasks, outcome \in {"done", "failed"} :
          /\ aTasks[t] = "running"
          /\ aTasks' = [aTasks EXCEPT ![t] = outcome]
    /\ UNCHANGED <<apc, aInput, aTrx, aResult, hvars, qvars, pvars, ovars, lvars, dvars, rvars, fvars, bvars, tvars, svars>>

\* Promise.all rejects with the first failure
UploadJoinRejects ==
    /\ apc = "submitting"
    /\ \E t \in UploadTasks : aTasks[t] = "failed"
    /\ apc' = "failed"
    /\ aResult' = [err |-> "submission"]
    /\ UNCHANGED <<aInput, aTrx, aTasks, hvars, qvars, pvars, ovars, lvars, dvars, rvars, fvars, bvars, tvars, svars>>

\* a variant of the join that waits for the three and returns the result
\* whatever their outcomes
UploadReturns_AllSettled ==
    /\ apc = "submitting"
    /\ \A t \in UploadTasks : aTasks[t] \in {"done", "failed"}
    /\ apc' = "returned"
    /\ aResult' = [err |-> "none",
                   created |-> [type |-> "file", metadataTxId |-> aTrx.metaDataTrx.id,
                                dataTxId |-> aTrx.dataTrx.id, entityId |-> aTrx.fileId,
                                key |-> IF aInput.private THEN "" ELSE "absent"],
                   tips |-> [txId |-> aTrx.commTipTrx.id],
                   fees |-> IF aInput.private
                            THEN {aTrx.metaDataTrx.id, aTrx.dataTrx.id, aTrx.commTipTrx.id}
                            ELSE {aTrx.metaDataTrx.id, aTrx.dataTrx.id}]
    /\ UNCHANGED <<aInput, aTrx, aTasks, hvars, qvars, pvars, ovars, lvars, dvars, rvars, fvars, bvars, tvars, svars>>

\* Promise.all resolves and the result is returned
UploadReturns ==
    /\ apc = "submitting"
    /\ \A t \in UploadTasks : aTasks[t] = "done"
    /\ apc' = "returned"
    /\ aResult' = [err |-> "none",
                   created |-> [type |-> "file", metadataTxId |-> aTrx.metaDataTrx.id,
                                dataTxId |-> aTrx.dataTrx.id, entityId |-> aTrx.fileId,
                                key |-> IF aInput.private THEN "" ELSE "absent"],
                   tips |-> [txId |-> aTrx.commTipTrx.id],
                   fees |-> IF aInput.private
                            THEN {aTrx.metaDataTrx.id, aTrx.dataTrx.id, aTrx.commTipTrx.id}
                            ELSE {aTrx.metaDataTrx.id, aTrx.dataTrx.id}]
    /\ UNCHANGED <<aInput, aTrx, aTasks, hvars, qvars, pvars, ovars, lvars, dvars, rvars, fvars, bvars, tvars, svars>>

ArDriveUploadNext ==
    \/ UploadGetDriveId
    \/ UploadGetDrive
    \/ UploadPrepareFile
    \/ UploadGetTip
    \/ UploadCheckAndSubmit
    \/ UploadTaskSettles
    \/ UploadJoinRejects
    \/ UploadReturns

ArDriveUploadSpec == ArDriveUploadInit /\ [][ArDriveUploadNext]_vars

-----------------------------------------------------------------------------
(* Claims on ArDrive's file upload.                                         *)

\* the three transactions are prepared and the balance is below their fees
BalanceBelowFees ==
    /\ "commTipTrx" \in DOMAIN aTrx
    /\ aInput.balance < totalWinstonPrice(aTrx)

\* C12: when the wallet balance is less than dataTxFee + metaTxFee +
\* tipTxFee, the upload signals a validation error and none of the three
\* transactions is submitted or has a chunk uploaded in that run.
C12_InsufficientBalanceRejected ==
    BalanceBelowFees =>
        /\ apc = "failed"
        /\ aResult.err = "validation"
        /\ \A t \in UploadTasks : aTasks[t] = "idle"

\* the same with a wallet DAO that answers directly
InsufficientBalanceRejectedWhenDirect ==
    (BalanceBelowFees /\ ~aInput.asyncWalletDao) =>
        /\ apc = "failed"
        /\ aResult.err = "validation"
        /\ \A t \in UploadTasks : aTasks[t] = "idle"

-----------------------------------------------------------------------------
(* The write operations of the ArFSDAO: createPublicFolder,                 *)
(* createPrivateFolder, createPublicFolderDataItem, createPublicDrive,      *)
(* createPrivateDrive, uploadPublicFile, uploadPrivateFile and              *)
(* sendChunkedUploadWithProgress.  A position of an operation is one of     *)
(* its awaits; an action is the answer to the await and the code up to the  *)
(* next one.                                                                *)

\* the largest number of chunks of a transaction
MaxChunks == 2

STATED_DRIVE == "d1"
OTHER_DRIVE == "d2"
GIVEN_PARENT == "p1"
DRIVE_ROOT == "r1"
NEW_FOLDER == "new-folder"
NEW_DRIVE == "new-drive"
NEW_FILE == "new-file"

FolderOpNames == {"createPublicFolder", "createPrivateFolder", "createPublicFolderDataItem"}
DriveOpNames == {"createPublicDrive", "createPrivateDrive"}
FileOpNames == {"uploadPublicFile", "uploadPrivateFile"}
PrivateOpNames == {"createPrivateFolder", "createPrivateDrive", "uploadPrivateFile"}

NoRewardSettings == [reward |-> 0, feeMultiple |-> 0]
DaoRewardSettings == {NoRewardSettings, [reward |-> 0, feeMultiple |-> 15]}

\* a record of the ledger, and a prepared transaction or data item
ArFSRecord(entityType, entityId, driveId, parentFolderId, rootFolderId, dataTxId, private) ==
    [entityType |-> entityType, entityId |-> entityId, driveId |-> driveId,
     parentFolderId |-> parentFolderId, rootFolderId |-> rootFolderId,
     dataTxId |-> dataTxId, private |-> private]

OnChain(meta, txId, uploaded, total) ==
    [meta |-> meta, txId |-> txId, uploaded |-> uploaded, total |-> total]

\* what the ledger holds before the operation: the parent folder given to
\* the operation, recorded in the stated drive or in another one, or not at
\* all; the stated drive, with or without a root folder, public or private,
\* or not at all
WorldChains ==
    {p \o d :
        p \in {<<>>} \cup
              {<<OnChain(ArFSRecord("folder", GIVEN_PARENT, dr, NoNode, NoNode, NoNode, FALSE),
                         "tx-p1", 1, 1)>> : dr \in {STATED_DRIVE, OTHER_DRIVE}},
        d \in {<<>>} \cup
              {<<OnChain(ArFSRecord("drive", STATED_DRIVE, STATED_DRIVE, NoNode, root, NoNode, priv),
                         "tx-d1", 1, 1)>> : root \in {NoNode, DRIVE_ROOT}, priv \in BOOLEAN}}

DaoOps ==
    [name : FolderOpNames, parentFolderId : {NoNode, GIVEN_PARENT},
     syncParentFolderId : BOOLEAN, rewardSettings : DaoRewardSettings,
     chunks : 1..MaxChunks, resumeAt : {0}]
    \cup
    [name : DriveOpNames, parentFolderId : {NoNode},
     syncParentFolderId : {FALSE}, rewardSettings : DaoRewardSettings,
     chunks : 1..MaxChunks, resumeAt : {0}]
    \cup
    [name : FileOpNames, parentFolderId : {GIVEN_PARENT},
     syncParentFolderId : {FALSE}, rewardSettings : DaoRewardSettings,
     chunks : 1..MaxChunks, resumeAt : {0}]
    \cup
    [name : {"sendChunkedUploadWithProgress"}, parentFolderId : {NoNode},
     syncParentFolderId : {FALSE}, rewardSettings : {NoRewardSettings},
     chunks : 1..MaxChunks, resumeAt : 0..MaxChunks]

\* the records that match a query on entity type and id and are fully
\* uploaded, in the gateway's order
EdgesOf(chain, entityType, entityId) ==
    LET Match(r) == /\ r.meta.entityType = entityType
                    /\ r.meta.entityId = entityId
                    /\ r.uploaded = r.total
    IN  SelectSeq2(chain, Match)

\* getDriveIdForFolderId: the Drive-Id tag of the first record of the folder
getDriveIdForFolderId(chain, folderId) ==
    LET edges == EdgesOf(chain, "folder", folderId)
    IN  IF Len(edges) = 0 THEN Err("not-found")
        ELSE Ok(edges[1].meta.driveId)

\* getPublicDrive and getPrivateDrive: the drive of that id and privacy
getDrive(chain, driveId, private) ==
    LET Match(r) == r.meta.private = private
        edges == SelectSeq2(EdgesOf(chain, "drive", driveId), Match)
    IN  IF Len(edges) = 0 THEN Err("not-found")
        ELSE Ok(edges[1].meta)

\* the branch of the create-folder operations that asserts the parent's drive
ChecksParent(op) ==
    IF op.name = "createPublicFolderDataItem"
    THEN op.parentFolderId # NoNode
    ELSE op.parentFolderId # NoNode /\ op.syncParentFolderId

\* the branch that attaches the folder to the root folder of the drive
Reparents(op) == ~ChecksParent(op) /\ op.syncParentFolderId

\* a variant that never attaches the folder to the root folder of the drive
ResolveParent_NoReparent(op, chain) ==
    IF ChecksParent(op)
    THEN LET actualDriveId == getDriveIdForFolderId(chain, op.parentFolderId)
         IN  IF actualDriveId.err # "none" THEN actualDriveId
             ELSE IF actualDriveId.val # STATED_DRIVE THEN Err("consistency")
             ELSE Ok(op.parentFolderId)
    ELSE IF Reparents(op)
    THEN LET found == getDrive(chain, STATED_DRIVE, op.name \in PrivateOpNames)
         IN  IF found.err # "none" THEN found
             ELSE Ok(op.parentFolderId)
    ELSE Ok(op.parentFolderId)

\* the code before the folder id is generated: the parentFolderId to write,
\* or the error thrown
ResolveParent(op, chain) ==
    IF ChecksParent(op)
    THEN LET actualDriveId == getDriveIdForFolderId(chain, op.parentFolderId)
         IN  IF actualDriveId.err # "none" THEN actualDriveId
             ELSE IF actualDriveId.val # STATED_DRIVE THEN Err("consistency")
             ELSE Ok(op.parentFolderId)
    ELSE IF Reparents(op)
    THEN LET found == getDrive(chain, STATED_DRIVE, op.name \in PrivateOpNames)
         IN  IF found.err # "none" THEN found
             ELSE IF found.val.rootFolderId # NoNode THEN Ok(found.val.rootFolderId)
             ELSE Ok(op.parentFolderId)
    ELSE Ok(op.parentFolderId)

\* the reward settings an operation hands to prepareArFSObjectTransaction
\* for the transaction of a phase
RewardSettingsPassed(op, phase) ==
    IF op.name \in {"createPrivateFolder", "createPrivateDrive"} /\ phase = "folder"
    THEN NoRewardSettings
    ELSE op.rewardSettings

TxIdOf(phase) ==
    CASE phase = "folder" -> "tx-folder"
      [] phase = "drive" -> "tx-drive"
      [] phase = "data" -> "tx-data"
      [] phase = "meta" -> "tx-meta"

\* the prototype an operation builds for a phase, from its locals
PrototypeOf(op, local, phase) ==
    LET private == op.name \in PrivateOpNames
    IN  CASE phase = "folder" ->
               ArFSRecord("folder", NEW_FOLDER, local.driveId, local.parentFolderId,
                          NoNode, NoNode, private)
          [] phase = "drive" ->
               ArFSRecord("drive", local.driveId, local.driveId, NoNode,
                          local.rootFolderId, NoNode, private)
          [] phase = "data" ->
               ArFSRecord("fileData", NoNode, NoNode, NoNode, NoNode, NoNode, private)
          [] phase = "meta" ->
               ArFSRecord("file", NEW_FILE, local.driveId, local.parentFolderId,
                          NoNode, local.dataTxId, private)

\* the transaction or data item prepared and signed for a phase (boost: it
\* carries the Boost tag)
PreparedFor(op, local, phase) ==
    [phase |-> phase,
     id |-> TxIdOf(phase),
     kind |-> IF op.name = "createPublicFolderDataItem" THEN "dataItem" ELSE "transaction",
     meta |-> PrototypeOf(op, local, phase),
     reward |-> CreateTransactionOf(RewardSettingsPassed(op, phase), 3).reward,
     boost |-> Boosts(RewardSettingsPassed(op, phase)),
     total |-> op.chunks]

\* the first phase of an operation and the phase after a phase ("none" when
\* the operation returns)
FirstPhase(op) == IF op.name \in FileOpNames THEN "data" ELSE "folder"

PhaseAfter(op, phase) ==
    IF phase = "folder" /\ op.name \in DriveOpNames THEN "drive"
    ELSE IF phase = "data" /\ op.name \in FileOpNames THEN "meta"
    ELSE "none"

TrxOf(trxs, phase) == trxs[CHOOSE i \in 1..Len(trxs) : trxs[i].phase = phase]
HasTrx(trxs, phase) == \E i \in 1..Len(trxs) : trxs[i].phase = phase

\* what an operation returns
ResultOf(op, local, trxs) ==
    [err |-> "none",
     ids |-> [p \in {trxs[i].phase : i \in 1..Len(trxs)} |-> TrxOf(trxs, p).id],
     rewards |-> [p \in {trxs[i].phase : i \in 1..Len(trxs)} |-> TrxOf(trxs, p).reward],
     local |-> local]

\* the code after the upload of a phase, up to the next await or the return
AfterPhase(op, local, trxs, phase) ==
    IF PhaseAfter(op, phase) = "none"
    THEN [pc |-> [at |-> "returned", phase |-> phase], result |-> ResultOf(op, local, trxs)]
    ELSE [pc |-> [at |-> "prepare", phase |-> PhaseAfter(op, phase)],
          result |-> [err |-> "unset"]]

\* a variant of the loop that calls uploadChunk once for every uploader
LoopOrLeave_SingleChunk(op, local, trxs, phase, uploader, firstTest) ==
    IF firstTest /\ uploader.uploaded # uploader.total
    THEN [pc |-> [at |-> "chunk", phase |-> phase], result |-> [err |-> "unset"]]
    ELSE IF op.name = "sendChunkedUploadWithProgress"
    THEN [pc |-> [at |-> "returned", phase |-> phase], result |-> [err |-> "none"]]
    ELSE AfterPhase(op, local, trxs, phase)

\* a variant of the loop that tests the uploader after the chunk step
LoopOrLeave_TestAfter(op, local, trxs, phase, uploader, firstTest) ==
    IF firstTest \/ uploader.uploaded # uploader.total
    THEN [pc |-> [at |-> "chunk", phase |-> phase], result |-> [err |-> "unset"]]
    ELSE IF op.name = "sendChunkedUploadWithProgress"
    THEN [pc |-> [at |-> "returned", phase |-> phase], result |-> [err |-> "none"]]
    ELSE AfterPhase(op, local, trxs, phase)

\* how the upload loop of a phase goes on with an uploader: another
\* uploadChunk, or the code after the loop.  createPrivateDrive calls
\* uploadChunk on the uploader of the drive once and has no loop.
LoopOrLeave(op, local, trxs, phase, uploader, firstTest) ==
    IF \/ op.name = "createPrivateDrive" /\ phase = "drive" /\ firstTest
       \/ ~(op.name = "createPrivateDrive" /\ phase = "drive") /\ uploader.uploaded # uploader.total
    THEN [pc |-> [at |-> "chunk", phase |-> phase], result |-> [err |-> "unset"]]
    ELSE IF op.name = "sendChunkedUploadWithProgress"
    THEN [pc |-> [at |-> "returned", phase |-> phase], result |-> [err |-> "none"]]
    ELSE AfterPhase(op, local, trxs, phase)

\* the ledger after a chunk of the transaction went up
ChainWithChunk(chain, trx, uploaded) ==
    IF \E i \in 1..Len(chain) : chain[i].txId = trx.id
    THEN [i \in 1..Len(chain) |->
            IF chain[i].txId = trx.id THEN [chain[i] EXCEPT !.uploaded = uploaded]
            ELSE chain[i]]
    ELSE Append(chain, OnChain(trx.meta, trx.id, uploaded, trx.total))

Event(ev, phase) == [ev |-> ev, phase |-> phase]
\* a variant that does not hand the id of the data transaction to the
\* metadata
LocalFor_NoDataTxId(op, local, trxs, phase) ==
    IF phase = "drive"
    THEN [local EXCEPT !.rootFolderId = TrxOf(trxs, "folder").meta.entityId]
    ELSE local

\* the locals an operation has when it builds the prototype of a phase
LocalFor(op, local, trxs, phase) ==
    IF phase = "drive"
    THEN [local EXCEPT !.rootFolderId = TrxOf(trxs, "folder").meta.entityId]
    ELSE IF phase = "meta"
    THEN [local EXCEPT !.dataTxId = TrxOf(trxs, "data").id]
    ELSE local

\* the transaction handed to sendChunkedUploadWithProgress
GivenTrx(op) ==
    [phase |-> "data", id |-> TxIdOf("data"), kind |-> "transaction",
     meta |-> ArFSRecord("fileData", NoNode, NoNode, NoNode, NoNode, NoNode, FALSE),
     reward |-> 3, boost |-> FALSE, total |-> op.chunks]

DaoInit ==
    /\ dryRun \in BOOLEAN
    /\ dOp \in {op \in DaoOps : op.resumeAt <= op.chunks}
    /\ dChain \in {w \o (IF dOp.resumeAt > 0
                         THEN <<OnChain(GivenTrx(dOp).meta, GivenTrx(dOp).id,
                                        dOp.resumeAt, dOp.chunks)>>
                         ELSE <<>>) : w \in WorldChains}
    /\ dpc = IF dOp.name \in FolderOpNames THEN [at |-> "resolve", phase |-> "folder"]
             ELSE IF dOp.name = "sendChunkedUploadWithProgress"
             THEN [at |-> "getUploader", phase |-> "data"]
             ELSE [at |-> "start", phase |-> FirstPhase(dOp)]
    /\ dLocal = [driveId |-> STATED_DRIVE, parentFolderId |-> dOp.parentFolderId,
                 rootFolderId |-> NoNode, dataTxId |-> NoNode]
    /\ dTrx = IF dOp.name = "sendChunkedUploadWithProgress" THEN <<GivenTrx(dOp)>> ELSE <<>>
    /\ dUploader = [phase |-> "none", uploaded |-> 0, total |-> 0]
    /\ dLog = <<>>
    /\ dResult = [err |-> "unset"]
    /\ dLookup = [err |-> "unset"]
    \* the other components are at rest
    /\ entities = <<>> /\ hpc = "idle" /\ hierarchy = [err |-> "unset"]
    /\ subTree = [of |-> "unset"] /\ pathResult = [on |-> "unset"]
    /\ withPaths = [err |-> "unset"]
    /\ ledger = <<>> /\ latestRevisionsOnly = FALSE /\ qpc = "idle" /\ cursor = ""
    /\ hasNextPage = TRUE /\ allFiles = <<>> /\ queries = <<>> /\ listing = <<>>
    /\ ppc = "idle" /\ prepInput = <<>> /\ prepObject = <<>> /\ prepError = "none"
    /\ contract = <<>> /\ oracleCalls = 0 /\ tipCall = <<>> /\ holderCall = <<>>
    /\ drive = <<>> /\ lpc = "idle" /\ listArg = "" /\ listWork = <<>> /\ listed = [err |-> "unset"]
    /\ apc = "idle" /\ aInput = <<>> /\ aTrx = <<>> /\ aTasks = <<>> /\ aResult = [err |-> "unset"]
    /\ rOp = <<>> /\ rpc = [at |-> "idle"] /\ rAttempt = 0 /\ rIds = <<>> /\ rUsed = {} /\ rChain = <<>>
    /\ fs = <<>> /\ cwd = <<>> /\ destOutputPath = <<>> /\ fpc = "idle" /\ outResult = [err |-> "unset"]
    /\ pending = {} /\ completed = <<>>
    /\ txOptions = <<>> /\ gateway = <<>> /\ tpc = "idle" /\ txOut = [exit |-> "unset"]
    /\ spc = "idle" /\ sIter = 0 /\ sTasks = <<>>

\* the drive and file operations up to their first await: createPublicDrive
\* generates the drive id, createPrivateDrive is given it
DaoStart ==
    /\ dpc.at = "start"
    /\ dLocal' = [dLocal EXCEPT !.driveId = IF dOp.name = "createPublicDrive"
                                            THEN NEW_DRIVE ELSE @]
    /\ dpc' = [at |-> "prepare", phase |-> FirstPhase(dOp)]
    /\ UNCHANGED <<dryRun, dOp, dTrx, dUploader, dChain, dLog, dResult, dLookup,
                   hvars, qvars, pvars, ovars, lvars, avars, rvars, fvars, bvars, tvars, svars>>

\* the create-folder operations up to the generation of the folder id
DaoResolveParent ==
    /\ dpc.at = "resolve"
    /\ LET r == ResolveParent(dOp, dChain)
       IN  IF r.err # "none"
           THEN /\ dpc' = [at |-> "failed", phase |-> "folder"]
                /\ dResult' = [err |-> r.err]
                /\ UNCHANGED dLocal
           ELSE /\ dpc' = [at |-> "prepare", phase |-> "folder"]
                /\ dLocal' = [dLocal EXCEPT !.parentFolderId = r.val]
                /\ UNCHANGED dResult
    /\ UNCHANGED <<dryRun, dOp, dTrx, dUploader, dChain, dLog, dLookup,
                   hvars, qvars, pvars, ovars, lvars, avars, rvars, fvars, bvars, tvars, svars>>

\* a variant of the test that guards the metadata uploads alone: the data
\* transaction of a file is uploaded on a dry run as well
SkipsUpload_MetadataOnly(op, phase, dry) ==
    op.name = "createPublicFolderDataItem" \/ (dry /\ phase # "data")

\* if (!this.dryRun) around every getUploader; createPublicFolderDataItem
\* returns the data item and uploads nothing
SkipsUpload(op, phase, dry) ==
    op.name = "createPublicFolderDataItem" \/ dry

\* the prototype of the phase, prepareArFSObjectTransaction or
\* prepareArFSObjectDataItem, and the test of dryRun
DaoPrepare ==
    /\ dpc.at = "prepare"
    /\ LET phase == dpc.phase
           local == LocalFor(dOp, dLocal, dTrx, phase)
           trxs == Append(dTrx, PreparedFor(dOp, local, phase))
           next == AfterPhase(dOp, local, trxs, phase)
       IN  /\ dLocal' = local
           /\ dTrx' = trxs
           /\ dLog' = Append(dLog, Event("prepared", phase))
           /\ IF SkipsUpload(dOp, phase, dryRun)
              THEN dpc' = next.pc /\ dResult' = next.result
              ELSE dpc' = [at |-> "getUploader", phase |-> phase] /\ UNCHANGED dResult
    /\ UNCHANGED <<dryRun, dOp, dUploader, dChain, dLookup,
                   hvars, qvars, pvars, ovars, lvars, avars, rvars, fvars, bvars, tvars, svars>>

\* await this.arweave.transactions.getUploader(trx), and the first test of
\* the loop
DaoGetUploader ==
    /\ dpc.at = "getUploader"
    /\ LET phase == dpc.phase
           uploader == [phase |-> phase, uploaded |-> dOp.resumeAt,
                        total |-> TrxOf(dTrx, phase).total]
           next == LoopOrLeave(dOp, dLocal, dTrx, phase, uploader, TRUE)
       IN  /\ dUploader' = uploader
           /\ dLog' = Append(dLog, Event("getUploader", phase))
           /\ dpc' = next.pc
           /\ dResult' = next.result
    /\ UNCHANGED <<dryRun, dOp, dLocal, dTrx, dChain, dLookup,
                   hvars, qvars, pvars, ovars, lvars, avars, rvars, fvars, bvars, tvars, svars>>

\* an uploadChunk that uploads the next chunk, and the code up to the next
\* await; in sendChunkedUploadWithProgress the progress line
DaoUploadChunk ==
    /\ dpc.at = "chunk"
    /\ LET phase == dpc.phase
           uploader == [dUploader EXCEPT !.uploaded = @ + 1]
           next == LoopOrLeave(dOp, dLocal, dTrx, phase, uploader, FALSE)
       IN  /\ dUploader' = uploader
           /\ dChain' = ChainWithChunk(dChain, TrxOf(dTrx, phase), uploader.uploaded)
           /\ dLog' = dLog \o <<Event("uploadChunk", phase)>>
                          \o (IF phase = "data" THEN <<Event("progress", phase)>> ELSE <<>>)
           /\ dpc' = next.pc
           /\ dResult' = next.result
    /\ UNCHANGED <<dryRun, dOp, dLocal, dTrx, dLookup,
                   hvars, qvars, pvars, ovars, lvars, avars, rvars, fvars, bvars, tvars, svars>>

\* an uploadChunk that fails: the loops on the uploader let the error
\* through; uploadDataChunk answers null and sendChunkedUploadWithProgress
\* leaves its loop
DaoChunkFails ==
    /\ dpc.at = "chunk"
    /\ LET phase == dpc.phase
           next == IF dOp.name = "sendChunkedUploadWithProgress"
                   THEN [pc |-> [at |-> "returned", phase |-> phase],
                         result |-> [err |-> "none"]]
                   ELSE AfterPhase(dOp, dLocal, dTrx, phase)
       IN  /\ dLog' = Append(dLog, Event("uploadChunk", phase))
           /\ IF phase = "data"
              THEN dpc' = next.pc /\ dResult' = next.result
              ELSE /\ dpc' = [at |-> "failed", phase |-> phase]
                   /\ dResult' = [err |-> "transport"]
    /\ UNCHANGED <<dryRun, dOp, dLocal, dTrx, dUploader, dChain, dLookup,
                   hvars, qvars, pvars, ovars, lvars, avars, rvars, fvars, bvars, tvars, svars>>

\* after the operation, a getDriveIdForFolderId on a folder of the ledger or
\* on an id without a record
DaoLookup ==
    /\ dpc.at \in {"returned", "failed"}
    /\ dLookup.err = "unset"
    /\ \E folderId \in {GIVEN_PARENT, NEW_FOLDER, AbsentId} :
          dLookup' = [err |-> getDriveIdForFolderId(dChain, folderId).err,
                      val |-> getDriveIdForFolderId(dChain, folderId).val,
                      folderId |-> folderId]
    /\ UNCHANGED <<dryRun, dOp, dpc, dLocal, dTrx, dUploader, dChain, dLog, dResult,
                   hvars, qvars, pvars, ovars, lvars, avars, rvars, fvars, bvars, tvars, svars>>

DaoNext ==
    \/ DaoStart
    \/ DaoResolveParent
    \/ DaoPrepare
    \/ DaoGetUploader
    \/ DaoUploadChunk
    \/ DaoChunkFails
    \/ DaoLookup

DaoSpec == DaoInit /\ [][DaoNext]_vars
-----------------------------------------------------------------------------
(* Claims on the write operations of the DAO.                               *)

\* the create-folder operation was given a parent folder that the ledger
\* records in another drive than the stated one
ParentInOtherDrive ==
    /\ dOp.name \in FolderOpNames
    /\ dOp.parentFolderId # NoNode
    /\ getDriveIdForFolderId(dChain, dOp.parentFolderId).err = "none"
    /\ getDriveIdForFolderId(dChain, dOp.parentFolderId).val # STATED_DRIVE

\* the records of the ledger that carry the entity id
RecordsOf(chain, entityId) ==
    {i \in 1..Len(chain) : chain[i].meta.entityId = entityId}

\* C13: whenever a parent folder id is given and the drive recorded for that
\* parent differs from the stated drive id, folder creation fails with a
\* consistency error and no folder record is prepared, signed or uploaded,
\* in the public, the private and the data-item variant and for every value
\* of the other settings.
C13_ConsistencyEnforced ==
    (ParentInOtherDrive /\ dpc.at # "resolve") =>
        /\ dpc.at = "failed"
        /\ dResult.err = "consistency"
        /\ dTrx = <<>>
        /\ RecordsOf(dChain, NEW_FOLDER) = {}

\* the same where the operation looks the parent up: the data-item variant,
\* and the two others with syncParentFolderId
ConsistencyEnforcedWhereChecked ==
    (ParentInOtherDrive /\ ChecksParent(dOp) /\ dpc.at # "resolve") =>
        /\ dpc.at = "failed"
        /\ dResult.err = "consistency"
        /\ dTrx = <<>>
        /\ RecordsOf(dChain, NEW_FOLDER) = {}
\* the drive of the stated id, as the operation's privacy finds it
StatedDrive == getDrive(dChain, STATED_DRIVE, dOp.name \in PrivateOpNames)

\* the folder records the operation prepared or put on the ledger
FolderWritten ==
    {dTrx[i].meta : i \in {j \in 1..Len(dTrx) : dTrx[j].phase = "folder"}}
    \cup {dChain[i].meta : i \in RecordsOf(dChain, NEW_FOLDER)}

\* C14: when a create-folder operation is called without a parent folder id,
\* with reparenting enabled, and the drive has a root folder, the folder
\* record written carries the drive's root folder id as Parent-Folder-Id; a
\* folder record without a parent is written only when reparenting is
\* disabled or the drive has no root folder.
C14_Reparenting ==
    \A rec \in FolderWritten :
        /\ (/\ dOp.name \in FolderOpNames
            /\ dOp.parentFolderId = NoNode /\ dOp.syncParentFolderId
            /\ StatedDrive.err = "none" /\ StatedDrive.val.rootFolderId # NoNode)
              => rec.parentFolderId = StatedDrive.val.rootFolderId
        /\ rec.parentFolderId = NoNode
              => \/ ~dOp.syncParentFolderId
                 \/ StatedDrive.err = "none" /\ StatedDrive.val.rootFolderId = NoNode

\* C14 witness: createPrivateFolder without a parent has returned and its
\* record is on the ledger under the root folder of the drive
C14_Witness ==
    /\ dOp.name = "createPrivateFolder" /\ dOp.parentFolderId = NoNode
    /\ dOp.syncParentFolderId
    /\ dpc.at = "returned"
    /\ \E i \in RecordsOf(dChain, NEW_FOLDER) :
          /\ dChain[i].uploaded = dChain[i].total
          /\ dChain[i].meta.parentFolderId = DRIVE_ROOT

\* a folder without a parent was written with reparenting enabled, in a
\* drive without a root folder
C14_ParentlessWitness ==
    /\ dOp.name = "createPublicFolder" /\ dOp.syncParentFolderId
    /\ dpc.at = "returned"
    /\ \E i \in RecordsOf(dChain, NEW_FOLDER) : dChain[i].meta.parentFolderId = NoNode
\* the records of the ledger that the operation's transactions wrote
WritesIssued ==
    {i \in 1..Len(dChain) : \E j \in 1..Len(dTrx) : dChain[i].txId = dTrx[j].id}

\* the transaction of the phase is on the ledger with all its chunks
FullyUploaded(phase) ==
    \E i \in 1..Len(dChain) :
        /\ dChain[i].txId = TxIdOf(phase)
        /\ dChain[i].uploaded = dChain[i].total

\* what the drive-creation claim says of a state
DriveCreationOrdered ==
    /\ HasTrx(dTrx, "drive") =>
          /\ FullyUploaded("folder")
          /\ TrxOf(dTrx, "drive").meta.rootFolderId = TrxOf(dTrx, "folder").meta.entityId
          /\ TrxOf(dTrx, "drive").meta.rootFolderId # NoNode
    /\ HasTrx(dTrx, "folder") => TrxOf(dTrx, "folder").meta.parentFolderId = NoNode
    /\ (dpc.at = "returned" /\ dResult.err = "none") =>
          /\ Cardinality(WritesIssued) = 2
          /\ {dChain[i].meta.entityType : i \in WritesIssued} = {"folder", "drive"}

\* C15 as stated: in createPublicDrive and createPrivateDrive the root-folder
\* record is fully uploaded before the drive record is prepared or submitted,
\* the root folder is written with no parent, the drive record's rootFolderId
\* is the entity id of that root folder, and exactly two ledger writes are
\* issued per successful drive creation.
C15_DriveCreationAsStated ==
    dOp.name \in DriveOpNames => DriveCreationOrdered

\* C15: the same for a DAO constructed with dryRun = false; with dryRun =
\* true a successful drive creation prepares both records, the drive record
\* pointing at the root folder, and issues no ledger write.
C15_DriveCreation ==
    dOp.name \in DriveOpNames =>
        IF ~dryRun THEN DriveCreationOrdered
        ELSE /\ WritesIssued = {}
             /\ HasTrx(dTrx, "drive") =>
                   TrxOf(dTrx, "drive").meta.rootFolderId = TrxOf(dTrx, "folder").meta.entityId
             /\ HasTrx(dTrx, "folder") => TrxOf(dTrx, "folder").meta.parentFolderId = NoNode

\* C15 witness: createPublicDrive has returned with dryRun off, both records
\* of two chunks each are on the ledger, the drive pointing at the folder
C15_Witness ==
    /\ dOp.name = "createPublicDrive" /\ ~dryRun /\ dOp.chunks = 2
    /\ dpc.at = "returned" /\ dResult.err = "none"
    /\ FullyUploaded("folder") /\ FullyUploaded("drive")
    /\ \E i \in RecordsOf(dChain, NEW_DRIVE) : dChain[i].meta.rootFolderId = NEW_FOLDER

\* a drive creation with dryRun on has returned successfully
C15_DryRunWitness ==
    /\ dOp.name \in DriveOpNames /\ dryRun
    /\ dpc.at = "returned" /\ dResult.err = "none"
    /\ Len(dTrx) = 2
\* drive creation failed after the root folder record was written and before
\* the drive record was
OrphanLeft ==
    /\ dOp.name \in DriveOpNames
    /\ dpc.at = "failed" /\ dpc.phase = "drive"
    /\ FullyUploaded("folder")
    /\ ~FullyUploaded("drive")

\* C16: if drive creation fails after the root-folder record was written but
\* before the drive record was written, the failure is reported to the
\* caller, and afterwards the orphan folder exists on the ledger while
\* getDriveIdForFolderId of the orphan folder fails.
C16_OrphanDetectable ==
    (OrphanLeft /\ dLookup.err # "unset" /\ dLookup.folderId = NEW_FOLDER) =>
        /\ dResult.err # "none"
        /\ EdgesOf(dChain, "folder", NEW_FOLDER) # <<>>
        /\ dLookup.err # "none"

\* the part on the report: the error reaches the caller, the folder stays on
\* the ledger and the drive record is not prepared again
OrphanReported ==
    OrphanLeft =>
        /\ dResult.err = "transport"
        /\ EdgesOf(dChain, "folder", NEW_FOLDER) # <<>>
        /\ Cardinality({i \in 1..Len(dLog) : dLog[i] = Event("prepared", "drive")}) = 1
\* the positions in the log of an event of a phase, and of any event of it
LogIndices(ev, phase) == {i \in 1..Len(dLog) : dLog[i] = Event(ev, phase)}
PhaseIndices(phase) == {i \in 1..Len(dLog) : dLog[i].phase = phase}

\* the metadata follows the data: built after the data transaction, pointing
\* at it, and every step on the metadata after every step on the data
MetadataAfterData ==
    /\ HasTrx(dTrx, "meta") =>
          /\ HasTrx(dTrx, "data")
          /\ TrxOf(dTrx, "meta").meta.dataTxId = TrxOf(dTrx, "data").id
          /\ TrxOf(dTrx, "meta").meta.dataTxId # NoNode
    /\ \A i \in PhaseIndices("data"), j \in PhaseIndices("meta") : i < j

\* the upload of the data was run before the metadata was built
DataUploadRan ==
    \A j \in LogIndices("prepared", "meta") :
        \E i \in LogIndices("getUploader", "data") : i < j

\* C17 as stated: in the DAO's uploadPublicFile and uploadPrivateFile the
\* raw-data transaction is built and its upload is run before the metadata
\* transaction is built, the metadata record's dataTxId is the id of that data
\* transaction, and no metadata chunk is uploaded before the data upload step
\* has returned.
C17_UploadOrderingAsStated ==
    dOp.name \in FileOpNames => MetadataAfterData /\ DataUploadRan

\* C17: the same for a DAO constructed with dryRun = false; with dryRun =
\* true the metadata is built after the data transaction and points at it,
\* and nothing is uploaded.
C17_UploadOrdering ==
    dOp.name \in FileOpNames =>
        /\ MetadataAfterData
        /\ IF ~dryRun THEN DataUploadRan
           ELSE LogIndices("getUploader", "data") \cup LogIndices("uploadChunk", "data")
                  \cup LogIndices("getUploader", "meta") \cup LogIndices("uploadChunk", "meta") = {}

\* C17 witness: uploadPrivateFile has returned with dryRun off, data and
\* metadata of two chunks each are on the ledger, the metadata record
\* carrying the id of the data transaction
C17_Witness ==
    /\ dOp.name = "uploadPrivateFile" /\ ~dryRun /\ dOp.chunks = 2
    /\ dpc.at = "returned" /\ dResult.err = "none"
    /\ FullyUploaded("data") /\ FullyUploaded("meta")
    /\ \E i \in RecordsOf(dChain, NEW_FILE) : dChain[i].meta.dataTxId = TxIdOf("data")
    /\ LogIndices("uploadChunk", "meta") # {}

\* a file upload with dryRun on has built the metadata
C17_DryRunWitness ==
    /\ dOp.name \in FileOpNames /\ dryRun
    /\ HasTrx(dTrx, "meta")
\* sendChunkedUploadWithProgress was given a transaction whose uploader is
\* complete
UploaderAlreadyComplete ==
    /\ dOp.name = "sendChunkedUploadWithProgress"
    /\ dOp.resumeAt = dOp.chunks

\* C20: the chunked upload of a transaction whose uploader is already complete
\* is a no-op: no chunk step is invoked and no progress is reported.
C20_CompleteUploadIsNoOp ==
    UploaderAlreadyComplete =>
        /\ dpc.at # "chunk"
        /\ LogIndices("uploadChunk", "data") = {}
        /\ LogIndices("progress", "data") = {}
        /\ \A i \in 1..Len(dChain) :
              dChain[i].txId = GivenTrx(dOp).id => dChain[i].uploaded = dOp.resumeAt

\* C20 witness: the call on a complete uploader of two chunks has returned
\* after obtaining the uploader
C20_Witness ==
    /\ UploaderAlreadyComplete /\ dOp.chunks = 2
    /\ dpc.at = "returned"
    /\ dLog = <<Event("getUploader", "data")>>
    /\ dUploader.uploaded = dUploader.total
-----------------------------------------------------------------------------
(* Claims on the paging loop.                                               *)

\* the cursor of the last edge of the pages, "" when they hold no edge
RECURSIVE LastCursorSeen(_)
LastCursorSeen(qs) ==
    IF qs = <<>> THEN ""
    ELSE IF qs[Len(qs)].edges = 0 THEN LastCursorSeen(SubSeq(qs, 1, Len(qs) - 1))
    ELSE qs[Len(qs)].page[qs[Len(qs)].edges].cursor

\* one built entity for every edge of every page, in page order
RECURSIVE EntitiesOfPages(_)
EntitiesOfPages(qs) ==
    IF qs = <<>> THEN <<>>
    ELSE EntitiesOfPages(SubSeq(qs, 1, Len(qs) - 1))
           \o [i \in 1..qs[Len(qs)].edges |-> BuildEntity(qs[Len(qs)].page[i].node)]

\* the safety part of the paging protocol
PagingProtocol ==
    /\ \A i \in 1..Len(queries) :
          /\ queries[i].cursor = LastCursorSeen(SubSeq(queries, 1, i - 1))
          /\ i < Len(queries) => queries[i].hasNextPage
    /\ (queries # <<>> /\ ~queries[Len(queries)].hasNextPage) => ~hasNextPage
    /\ qpc = "returned" => (queries # <<>> /\ ~queries[Len(queries)].hasNextPage)
    /\ allFiles = EntitiesOfPages(queries)
    /\ (qpc = "returned" /\ ~latestRevisionsOnly) => listing = EntitiesOfPages(queries)

\* C18: a get-all operation issues its queries one at a time, the first with
\* the empty cursor and each later one with the cursor of the last edge seen
\* so far; it stops exactly after the first page whose hasNextPage is false;
\* what it collected holds one built entity for every edge of every page, in
\* page order; once the gateway reports no further page the loop terminates.
C18_PagingProtocol ==
    /\ []PagingProtocol
    /\ (qpc = "loop" /\ ~hasNextPage) ~> (qpc = "returned")

\* C18 witness: three pages were fetched, each with an edge, and the
\* operation has returned the three entities
C18_Witness ==
    /\ qpc = "returned"
    /\ Len(queries) = 3
    /\ \A i \in 1..3 : queries[i].edges > 0
    /\ queries[2].cursor = CursorPool[1] /\ queries[3].cursor = CursorPool[2]
    /\ Len(allFiles) = 3

\* the pages without edges after which the gateway has more
IntermingledEmpty == {i \in 1..Len(queries) : queries[i].edges = 0 /\ queries[i].hasNextPage}

\* C19: when a page has no edges but hasNextPage is true, the loop goes on,
\* the next query carries the same cursor, that of the last edge seen, and
\* no entity of the other pages is lost or collected twice.
C19_ZeroEdgePageStable ==
    \A i \in IntermingledEmpty :
        /\ IF i = Len(queries)
           THEN qpc = "loop" /\ hasNextPage /\ cursor = queries[i].cursor
           ELSE queries[i + 1].cursor = queries[i].cursor
        /\ queries[i].cursor = LastCursorSeen(SubSeq(queries, 1, i - 1))
        /\ allFiles = [j \in 1..PositionOf(cursor) |-> BuildEntity(ledger[j].node)]
        /\ qpc = "returned" => Len(allFiles) = Len(ledger)

\* C19 witness: a page without edges came between two pages with edges, and
\* the operation has returned every record of the ledger once
C19_Witness ==
    /\ qpc = "returned"
    /\ \E i \in IntermingledEmpty : 1 < i /\ i < Len(queries)
    /\ Len(ledger) = 3
    /\ allFiles = [j \in 1..3 |-> BuildEntity(ledger[j].node)]
\* the operation runs the chunked upload of a data transaction
RunsChunkedUpload ==
    /\ dOp.name \in FileOpNames \cup {"sendChunkedUploadWithProgress"}
    /\ ~dryRun

\* the chunked upload of the data has ended: the call has returned, or the
\* file operation is past it
ChunkedUploadEnded ==
    \/ dpc.at = "returned"
    \/ dpc.phase = "meta"

\* C21: if the chunk step reports null while the uploader is not complete,
\* the chunked upload stops and the caller is informed; the upload never
\* returns normally, and the file operation never goes on to write metadata
\* and report success, with the uploader of the data transaction incomplete.
C21_IncompleteUploadSurfaced ==
    (RunsChunkedUpload /\ ChunkedUploadEnded /\ dpc.at # "failed") =>
        FullyUploaded("data")

\* the part on stopping: after the chunk step that reported null no further
\* chunk step is made on the data transaction
IncompleteUploadStops ==
    RunsChunkedUpload =>
        \A i \in LogIndices("uploadChunk", "data") :
            (i = Len(dLog) \/ dLog[i + 1] # Event("progress", "data")) =>
                \A j \in LogIndices("uploadChunk", "data") : j <= i

\* the file operation reported success with the data transaction incomplete
IncompleteButSuccess ==
    /\ dOp.name \in FileOpNames /\ ~dryRun
    /\ dpc.at = "returned" /\ dResult.err = "none"
    /\ ~FullyUploaded("data")
    /\ FullyUploaded("meta")
-----------------------------------------------------------------------------
(* Claims on the boost of a prepared transaction.                           *)

\* the Boost tags of the object being prepared
BoostTags == SelectSeq(prepObject.tags, LAMBDA t : t.name = "Boost")

\* the reward of the transaction before the boost: the one of the reward
\* settings, or the one createTransaction estimates
RewardBeforeBoost ==
    IF prepInput.rewardSettings.reward # 0 THEN prepInput.rewardSettings.reward
    ELSE prepInput.baseReward

\* C22: a prepared transaction carries a Boost tag if and only if the reward
\* settings hold a feeMultiple above 1.0; then its reward is the base reward
\* times the fee multiple, rounded up, and the tag's value is the fee
\* multiple; for a missing feeMultiple or one of at most 1.0 the reward is
\* left as it was and there is no Boost tag.
C22_Boost ==
    (prepInput.kind = "transaction" /\ ppc \in {"tagged", "signed"}) =>
        LET fm == prepInput.rewardSettings.feeMultiple
        IN  IF fm > 10
            THEN /\ BoostTags = <<Tag("Boost", FeeMultipleText[fm])>>
                 /\ 10 * prepObject.reward >= RewardBeforeBoost * fm
                 /\ 10 * (prepObject.reward - 1) < RewardBeforeBoost * fm
            ELSE /\ BoostTags = <<>>
                 /\ prepObject.reward = RewardBeforeBoost

\* C22 witness: a transaction with an estimated reward of 3 and a fee
\* multiple of 1.5 is signed with a reward of 5 and the tag Boost = 1.5
C22_Witness ==
    /\ prepInput.kind = "transaction" /\ ppc = "signed"
    /\ prepInput.rewardSettings = [reward |-> 0, feeMultiple |-> 15]
    /\ prepObject.reward = 5
    /\ BoostTags = <<Tag("Boost", "1.5")>>

\* a transaction with a fee multiple of exactly 1.0 is signed without boost
C22_NoBoostWitness ==
    /\ prepInput.kind = "transaction" /\ ppc = "signed"
    /\ prepInput.rewardSettings = [reward |-> 7, feeMultiple |-> 10]
    /\ prepObject.reward = 7
    /\ BoostTags = <<>>
-----------------------------------------------------------------------------
(* Claims on the result of ArDrive's file upload.                           *)

\* C23: every successful private file upload returns to its caller, in the
\* created-entity entry of the result, the key of the file, a non-empty key.
C23_FileKeyEmitted ==
    (aInput.private /\ apc = "returned") =>
        /\ aResult.err = "none"
        /\ aResult.created.key \notin {"", "absent"}

\* a private file upload has returned its result
PrivateUploadReturned ==
    /\ aInput.private /\ apc = "returned"
    /\ aResult.created.entityId = aTrx.fileId
    /\ aResult.created.key = ""
-----------------------------------------------------------------------------
(* A multi-step write of the DAO, file upload or drive creation, that the   *)
(* caller runs again with the same arguments after it failed.               *)

\* the largest number of attempts of the caller
MaxAttempts == 3

\* uuidv4: an id it has not handed out before
UuidPool == <<"u1", "u2", "u3", "u4", "u5", "u6", "u7", "u8">>
uuidv4(used) == UuidPool[Cardinality(used) + 1]

RetryOps == [name : DriveOpNames \cup FileOpNames]

\* the ids an attempt works with: the driveId argument or a generated one,
\* the generated folder id of a drive creation, the generated file id of a
\* file upload
IdsOfAttempt(op, used) ==
    IF op.name \in FileOpNames
    THEN [driveId |-> STATED_DRIVE, folderId |-> NoNode, fileId |-> uuidv4(used)]
    ELSE IF op.name = "createPublicDrive"
    THEN [driveId |-> uuidv4(used), folderId |-> uuidv4(used \cup {uuidv4(used)}),
          fileId |-> NoNode]
    ELSE [driveId |-> STATED_DRIVE, folderId |-> uuidv4(used), fileId |-> NoNode]

GeneratedIds(ids) == ({ids.driveId, ids.folderId, ids.fileId} \ {STATED_DRIVE, NoNode})

\* the record a phase publishes
PublishedRecord(ids, phase, attempt) ==
    [attempt |-> attempt,
     phase |-> phase,
     driveId |-> IF phase = "data" THEN NoNode ELSE ids.driveId,
     entityId |-> CASE phase = "folder" -> ids.folderId
                    [] phase = "drive" -> ids.driveId
                    [] phase = "meta" -> ids.fileId
                    [] phase = "data" -> NoNode]

RetryInit ==
    /\ rOp \in RetryOps
    /\ rpc = [at |-> "start", phase |-> FirstPhase(rOp)]
    /\ rAttempt = 1
    /\ rIds = <<>>
    /\ rUsed = {}
    /\ rChain = <<>>
    \* the other components are at rest
    /\ entities = <<>> /\ hpc = "idle" /\ hierarchy = [err |-> "unset"]
    /\ subTree = [of |-> "unset"] /\ pathResult = [on |-> "unset"]
    /\ withPaths = [err |-> "unset"]
    /\ ledger = <<>> /\ latestRevisionsOnly = FALSE /\ qpc = "idle" /\ cursor = ""
    /\ hasNextPage = TRUE /\ allFiles = <<>> /\ queries = <<>> /\ listing = <<>>
    /\ ppc = "idle" /\ prepInput = <<>> /\ prepObject = <<>> /\ prepError = "none"
    /\ contract = <<>> /\ oracleCalls = 0 /\ tipCall = <<>> /\ holderCall = <<>>
    /\ drive = <<>> /\ lpc = "idle" /\ listArg = "" /\ listWork = <<>> /\ listed = [err |-> "unset"]
    /\ apc = "idle" /\ aInput = <<>> /\ aTrx = <<>> /\ aTasks = <<>> /\ aResult = [err |-> "unset"]
    /\ dryRun = FALSE /\ dOp = <<>> /\ dpc = [at |-> "idle"] /\ dLocal = <<>> /\ dTrx = <<>> /\ dUploader = <<>> /\ dChain = <<>> /\ dLog = <<>> /\ dResult = [err |-> "unset"] /\ dLookup = [err |-> "unset"]
    /\ fs = <<>> /\ cwd = <<>> /\ destOutputPath = <<>> /\ fpc = "idle" /\ outResult = [err |-> "unset"]
    /\ pending = {} /\ completed = <<>>
    /\ txOptions = <<>> /\ gateway = <<>> /\ tpc = "idle" /\ txOut = [exit |-> "unset"]
    /\ spc = "idle" /\ sIter = 0 /\ sTasks = <<>>

\* the operation up to its first transaction: the ids are generated
RetryGenerateIds ==
    /\ rpc.at = "start"
    /\ LET ids == IdsOfAttempt(rOp, rUsed)
       IN  /\ rIds' = Append(rIds, ids)
           /\ rUsed' = rUsed \cup GeneratedIds(ids)
    /\ rpc' = [at |-> "write", phase |-> FirstPhase(rOp)]
    /\ UNCHANGED <<rOp, rAttempt, rChain, hvars, qvars, pvars, ovars, lvars, avars, dvars, fvars, bvars, tvars, svars>>

\* the transaction of a phase is prepared and uploaded, and the operation
\* goes on to the next one or returns
RetryWrite ==
    /\ rpc.at = "write"
    /\ rChain' = Append(rChain, PublishedRecord(rIds[rAttempt], rpc.phase, rAttempt))
    /\ rpc' = IF PhaseAfter(rOp, rpc.phase) = "none"
              THEN [at |-> "returned", phase |-> rpc.phase]
              ELSE [at |-> "write", phase |-> PhaseAfter(rOp, rpc.phase)]
    /\ UNCHANGED <<rOp, rAttempt, rIds, rUsed, hvars, qvars, pvars, ovars, lvars, avars, dvars, fvars, bvars, tvars, svars>>

\* the preparation or the upload of the phase throws
RetryWriteFails ==
    /\ rpc.at = "write"
    /\ rpc' = [at |-> "failed", phase |-> rpc.phase]
    /\ UNCHANGED <<rOp, rAttempt, rIds, rUsed, rChain, hvars, qvars, pvars, ovars, lvars, avars, dvars, fvars, bvars, tvars, svars>>

\* the caller calls the same operation again with the same arguments
RetryAgain ==
    /\ rpc.at = "failed"
    /\ rAttempt < MaxAttempts
    /\ rAttempt' = rAttempt + 1
    /\ rpc' = [at |-> "start", phase |-> FirstPhase(rOp)]
    /\ UNCHANGED <<rOp, rIds, rUsed, rChain, hvars, qvars, pvars, ovars, lvars, avars, dvars, fvars, bvars, tvars, svars>>

RetryNext ==
    \/ RetryGenerateIds
    \/ RetryWrite
    \/ RetryWriteFails
    \/ RetryAgain

RetrySpec == RetryInit /\ [][RetryNext]_vars

-----------------------------------------------------------------------------
(* Claims on retries.                                                       *)

\* C24: when a file upload or a drive creation fails part-way and the caller
\* retries it, the retry works under the entity ids of the first attempt
\* (file id, folder id, drive id), so that the records published for one
\* kind of entity all carry one entity id.
C24_StableIdsAcrossRetries ==
    /\ \A a \in 1..Len(rIds) : rIds[a] = rIds[1]
    /\ \A i, j \in 1..Len(rChain) :
          (rChain[i].phase = rChain[j].phase) =>
              /\ rChain[i].entityId = rChain[j].entityId
              /\ rChain[i].driveId = rChain[j].driveId

\* the id a caller hands in stays: the drive id of createPrivateDrive and of
\* the file uploads
GivenIdsStable ==
    rOp.name # "createPublicDrive" =>
        \A a \in 1..Len(rIds) : rIds[a].driveId = STATED_DRIVE

\* a drive creation failed after its root folder was published, was run
\* again and returned: two root folders are published
SecondEntityCreated ==
    /\ rOp.name = "createPublicDrive"
    /\ rpc.at = "returned" /\ rAttempt = 2
    /\ Cardinality({rChain[i].entityId :
                      i \in {k \in 1..Len(rChain) : rChain[k].phase = "folder"}}) = 2
-----------------------------------------------------------------------------
(* Claims on the three submissions of ArDrive's file upload.                *)

Committed == {t \in UploadTasks : aTasks[t] = "done"}

\* what holds of every state of the join
JoinedSubmission ==
    /\ (\E t \in UploadTasks : aTasks[t] # "idle") =>
          (\A t \in UploadTasks : aTasks[t] # "idle")
    /\ apc = "returned" => Committed = UploadTasks
    /\ (apc # "submitting" /\ \E t \in UploadTasks : aTasks[t] = "failed") =>
          /\ apc = "failed"
          /\ aResult.err = "submission"
          /\ DOMAIN aResult = {"err"}

\* a committed submission stays committed, and one that goes on is not
\* stopped, whatever becomes of the others
NoCompensation ==
    \A t \in UploadTasks :
        /\ aTasks[t] = "done" => aTasks'[t] = "done"
        /\ aTasks[t] = "running" => aTasks'[t] \in {"running", "done", "failed"}

\* C25: in ArDrive's uploadPublicFile and uploadPrivateFile the data upload,
\* the metadata upload and the tip submission are launched together and
\* joined; if one of them fails the operation reports failure and returns no
\* result, and nothing is done about the others.
C25_ConcurrentSubmissionNoRollback ==
    /\ []JoinedSubmission
    /\ [][NoCompensation]_vars

\* C25 witness: the operation has failed on its tip while data and metadata
\* are committed
C25_Witness ==
    /\ apc = "failed" /\ aResult.err = "submission"
    /\ aTasks["tip"] = "failed"
    /\ Committed = {"data", "meta"}

\* the operation has failed with the tip alone committed, the data upload
\* still going on
C25_OneCommittedWitness ==
    /\ apc = "failed" /\ aResult.err = "submission"
    /\ Committed = {"tip"}
    /\ aTasks["data"] = "running" /\ aTasks["meta"] = "failed"


-----------------------------------------------------------------------------
(* Claims on the completeness of a listing.                                 *)

\* the folder record of the ledger with the id
LedgerFolder(id) ==
    drive.folders[CHOOSE i \in 1..Len(drive.folders) : drive.folders[i].entityId = id]

\* the ids of the folder records of the ledger
LedgerFolderIds == {drive.folders[i].entityId : i \in 1..Len(drive.folders)}

\* the folder `id` lies under the folder `top`, at most `fuel` levels below
RECURSIVE LiesUnder(_, _, _)
LiesUnder(id, top, fuel) ==
    /\ fuel > 0
    /\ id \in LedgerFolderIds
    /\ \/ LedgerFolder(id).parentFolderId = top
       \/ LiesUnder(LedgerFolder(id).parentFolderId, top, fuel - 1)

\* a well-formed drive: one drive, one root folder, and every other folder
\* under the root folder
WellFormedDrive ==
    /\ \A i \in 1..Len(drive.folders) : drive.folders[i].driveId = drive.folders[1].driveId
    /\ Cardinality({i \in 1..Len(drive.folders) :
                       drive.folders[i].parentFolderId = ROOT_FOLDER}) = 1
    /\ \A i \in 1..Len(drive.folders) :
          \/ drive.folders[i].parentFolderId = ROOT_FOLDER
          \/ \E r \in LedgerFolderIds :
                /\ LedgerFolder(r).parentFolderId = ROOT_FOLDER
                /\ LiesUnder(drive.folders[i].entityId, r, Len(drive.folders))

\* the folder listed and the folders under it at any depth
ListedFolderAndDescendants ==
    {listArg} \cup {id \in LedgerFolderIds : LiesUnder(id, listArg, Len(drive.folders))}

\* the latest revisions of the files whose parent is the folder listed or a
\* folder under it
LatestFilesUnderListed ==
    {i \in 1..Len(drive.files) :
        /\ \A j \in 1..Len(drive.files) :
              drive.files[j].entityId = drive.files[i].entityId =>
                  drive.files[j].unixTime <= drive.files[i].unixTime
        /\ drive.files[i].parentFolderId \in ListedFolderAndDescendants}

\* the transaction ids of the entries of the listing
ListedTxIds == {listed.val[i].entity.txId : i \in 1..Len(listed.val)}

\* the names from the root folder down to the folder, each after a slash
RECURSIVE TruePathOfFolder(_, _)
TruePathOfFolder(id, fuel) ==
    IF fuel = 0 \/ id \notin LedgerFolderIds THEN <<>>
    ELSE TruePathOfFolder(LedgerFolder(id).parentFolderId, fuel - 1)
            \o <<"/">> \o LedgerFolder(id).name

\* every entry of the listing carries the path from the root of the drive
ListedPathsFromDriveRoot ==
    \A i \in 1..Len(listed.val) :
        listed.val[i].path =
            TruePathOfFolder(listed.val[i].entity.parentFolderId, Len(drive.folders))
                \o <<"/">> \o listed.val[i].entity.name

\* C26 as stated: listing a folder F of a well-formed drive returns F, every
\* folder under F at any depth, and the latest revision of every file whose
\* parent is F or a folder under F at any depth, each with the path from the
\* root of the drive.
C26_ListingComplete ==
    (WellFormedDrive /\ listArg \in LedgerFolderIds /\ lpc \in {"done", "failed"}) =>
        /\ listed.err = "none"
        /\ \A id \in ListedFolderAndDescendants : LedgerFolder(id).txId \in ListedTxIds
        /\ \A i \in LatestFilesUnderListed : drive.files[i].txId \in ListedTxIds
        /\ ListedPathsFromDriveRoot

\* what the listing does return: F, the folders at most two levels under F,
\* the latest revision of the files at most one level under F, and paths
\* from the root of the drive
ListingTwoLevels ==
    (WellFormedDrive /\ listArg \in LedgerFolderIds /\ lpc \in {"done", "failed"}) =>
        /\ listed.err = "none"
        /\ \A id \in LedgerFolderIds :
              (id = listArg \/ LiesUnder(id, listArg, 2)) =>
                  LedgerFolder(id).txId \in ListedTxIds
        /\ \A i \in LatestFilesUnderListed :
              (drive.files[i].parentFolderId = listArg
                  \/ LiesUnder(drive.files[i].parentFolderId, listArg, 1)) =>
                  drive.files[i].txId \in ListedTxIds
        /\ ListedPathsFromDriveRoot

\* a file two levels under the folder listed is left out of the listing
DeepFileLeftOut ==
    /\ WellFormedDrive /\ lpc = "done" /\ listed.err = "none"
    /\ \E i \in LatestFilesUnderListed :
          /\ LiesUnder(drive.files[i].parentFolderId, listArg, 2)
          /\ ~LiesUnder(drive.files[i].parentFolderId, listArg, 1)
          /\ drive.files[i].txId \notin ListedTxIds


-----------------------------------------------------------------------------
(* Claims on the construction of the hierarchy from malformed inputs.       *)

\* no folder of the input is its own ancestor
AcyclicInput == \A id \in InputIds : ~IsDescendantOf(id, id)

\* the folders of the input whose parent is not a folder of the input
LocalRootIds == {id \in InputIds : InputEntity(id).parentFolderId \notin InputIds}

\* the folders of the input whose parent is neither a folder of the input
\* nor the sentinel of a drive's root folder
MissingParentIds == {id \in LocalRootIds : InputEntity(id).parentFolderId # ROOT_FOLDER}

\* the folder has a node under the node of the parent its entity names, in
\* that node's children once
LinkedUnderParent(id) ==
    /\ id \in DOMAIN hierarchy.nmap
    /\ hierarchy.nmap[id].parent = InputEntity(id).parentFolderId
    /\ InputEntity(id).parentFolderId \in DOMAIN hierarchy.nmap
    /\ Cardinality({k \in 1..Len(hierarchy.nmap[InputEntity(id).parentFolderId].children) :
                       hierarchy.nmap[InputEntity(id).parentFolderId].children[k] = id}) = 1

RECURSIVE MetClimbing(_, _, _)
MetClimbing(from, x, fuel) ==
    /\ fuel > 0
    /\ from \in DOMAIN hierarchy.nmap
    /\ \/ hierarchy.nmap[from].parent = x
       \/ MetClimbing(hierarchy.nmap[from].parent, x, fuel - 1)

\* no folder is met again on the way up from its own node
NoFolderTwiceInItsChain ==
    \A id \in DOMAIN hierarchy.nmap : ~MetClimbing(id, id, Len(entities))

\* C28 as stated: newFromEntities ends with a hierarchy for every input,
\* inputs whose parent references form a cycle included, and in that
\* hierarchy no folder appears twice in its own ancestor chain.
C28_BoundedConstruction ==
    hpc # "entities" =>
        /\ hierarchy.err = "none"
        /\ NoFolderTwiceInItsChain

\* what the construction does: without a cycle in the parent references it
\* ends with a hierarchy free of repeats; with one it recurses until the
\* call stack is exhausted
ConstructionEndsIffAcyclic ==
    hpc # "entities" =>
        /\ AcyclicInput => (hierarchy.err = "none" /\ NoFolderTwiceInItsChain)
        /\ ~AcyclicInput => hierarchy.err = "RangeError"

\* a folder that is its own parent has exhausted the call stack
SelfParentOverflows ==
    /\ hpc = "failed" /\ hierarchy.err = "RangeError"
    /\ Len(entities) = 1 /\ entities[1].parentFolderId = entities[1].entityId


\* the orderings of the input: the entities taken in the order `perm`
Orderings ==
    {[i \in 1..Len(entities) |-> entities[perm[i]]] :
        perm \in {f \in [1..Len(entities) -> 1..Len(entities)] :
                     \A i, j \in 1..Len(entities) : i # j => f[i] # f[j]}}

\* the parent relation of a hierarchy: its nodes, the parent of each and the
\* set of the children of each
ParentRelation(h) ==
    [id \in DOMAIN h.nmap |->
        [parent |-> h.nmap[id].parent, children |-> Range(h.nmap[id].children)]]

\* C29: for an input without a cycle in its parent references (the ids are
\* distinct), newFromEntities yields the same parent relation from every
\* ordering of the input: the same nodes, the same parent and the same set
\* of children for every node; and setupNodesWithEntity on an entity that
\* is already linked leaves the node map as it is.
C29_OrderIndependence ==
    (hpc # "entities" /\ AcyclicInput) =>
        /\ hierarchy.err = "none"
        /\ \A other \in Orderings :
              LET built == newFromEntities(other)
              IN  /\ built.err = "none"
                  /\ ParentRelation(built) = ParentRelation(hierarchy)
        /\ \A i \in 1..Len(entities) :
              setupNodesWithEntity(entities[i], hierarchy.emap, hierarchy.nmap, 1)
                  = [overflow |-> FALSE, map |-> hierarchy.nmap]

\* C29 witness: a hierarchy was built from a chain of three folders listed
\* child first, one of whose orderings lists the parents first
C29_Witness ==
    /\ hpc = "built" /\ AcyclicInput /\ Len(entities) = 3
    /\ entities[1].parentFolderId = "f2"
    /\ entities[2].parentFolderId = "f3"
    /\ entities[3].parentFolderId = ROOT_FOLDER
    /\ <<entities[3], entities[2], entities[1]>> \in Orderings
    /\ hierarchy.nmap["f1"].parent = "f2"


-----------------------------------------------------------------------------
(* The output path of a download: getOutputFilePathAndName.                 *)

\* the largest number of segments of the path handed to the function
MaxDestLen == 2

\* A path is the sequence of its segments; the root is the empty sequence.
\* The entries the file system may hold besides the root
FsPaths == {<<"a">>, <<"b">>, <<"a", "a">>, <<"a", "b">>}

\* what statSync tells of an entry: a directory, a regular file, or
\* something else (a socket, a FIFO, a device)
StatKinds == {"dir", "file", "other"}

\* path.dirname and path.basename of a resolved path
dirname(path) == IF Len(path) = 0 THEN path ELSE SubSeq(path, 1, Len(path) - 1)
basename(path) == IF Len(path) = 0 THEN "" ELSE path[Len(path)]

\* The file systems: every entry lies in a directory
FileSystems ==
    {f \in [FsPaths -> StatKinds \cup {"absent"}] :
        \A q \in FsPaths :
            (f[q] # "absent" /\ Len(q) > 1) => f[dirname(q)] = "dir"}

\* statSync: the kind of the entry, and ENOENT thrown where there is none
statSync(f, path) ==
    IF Len(path) = 0 THEN [err |-> "none", kind |-> "dir"]
    ELSE IF path \in FsPaths /\ f[path] # "absent" THEN [err |-> "none", kind |-> f[path]]
    ELSE [err |-> "ENOENT"]

\* the directories of a file system: where the working directory may be
Directories(f) == {<<>>} \cup {q \in FsPaths : f[q] = "dir"}

\* The argument: absolute or relative, its segments names, "." or ".."
DestPaths ==
    [absolute : BOOLEAN,
     segments : UNION {[1..n -> {"a", "b", ".", ".."}] : n \in 0..MaxDestLen}]

\* path.resolve: from the root or the working directory, "." dropped, ".."
\* one level up and no further than the root
RECURSIVE Normalize(_, _, _)
Normalize(base, segments, i) ==
    IF i > Len(segments) THEN base
    ELSE Normalize(IF segments[i] = "." THEN base
                   ELSE IF segments[i] = ".." THEN dirname(base)
                   ELSE Append(base, segments[i]),
                   segments, i + 1)

resolve(from, dest) == Normalize(IF dest.absolute THEN <<>> ELSE from, dest.segments, 1)

NotFolderNorFile == "The destination isn't a folder nor a file!"
NotADirectory == "The path is not a directory!"

\* the catch block: the parent decides
CatchBlock(f, outputDirname, outputBasename) ==
    LET outputParentPathStats == statSync(f, outputDirname)
    IN  IF outputParentPathStats.err # "none" THEN [err |-> outputParentPathStats.err]
        ELSE IF outputParentPathStats.kind = "dir"
             THEN [err |-> "none", val |-> <<outputDirname, outputBasename>>]
             ELSE [err |-> NotADirectory]

\* getOutputFilePathAndName: whatever is thrown inside the try block, the
\* error of statSync and the error of the function itself alike, is caught
getOutputFilePathAndName(f, from, dest) ==
    LET resolvedOutputPath == resolve(from, dest)
        outputDirname == dirname(resolvedOutputPath)
        outputBasename == basename(resolvedOutputPath)
        outputPathStats == statSync(f, resolvedOutputPath)
    IN  IF outputPathStats.err = "none" /\ outputPathStats.kind = "dir"
        THEN [err |-> "none", val |-> <<resolvedOutputPath>>]
        ELSE IF outputPathStats.err = "none" /\ outputPathStats.kind = "file"
        THEN [err |-> "none", val |-> <<outputDirname, outputBasename>>]
        ELSE CatchBlock(f, outputDirname, outputBasename)

OutputPathInit ==
    /\ fs \in FileSystems
    /\ cwd \in Directories(fs)
    /\ destOutputPath \in DestPaths
    /\ fpc = "call"
    /\ outResult = [err |-> "unset"]
    \* the other components are at rest
    /\ entities = <<>> /\ hpc = "idle" /\ hierarchy = [err |-> "unset"]
    /\ subTree = [of |-> "unset"] /\ pathResult = [on |-> "unset"]
    /\ withPaths = [err |-> "unset"]
    /\ ledger = <<>> /\ latestRevisionsOnly = FALSE /\ qpc = "idle" /\ cursor = ""
    /\ hasNextPage = TRUE /\ allFiles = <<>> /\ queries = <<>> /\ listing = <<>>
    /\ ppc = "idle" /\ prepInput = <<>> /\ prepObject = <<>> /\ prepError = "none"
    /\ contract = <<>> /\ oracleCalls = 0 /\ tipCall = <<>> /\ holderCall = <<>>
    /\ drive = <<>> /\ lpc = "idle" /\ listArg = "" /\ listWork = <<>> /\ listed = [err |-> "unset"]
    /\ apc = "idle" /\ aInput = <<>> /\ aTrx = <<>> /\ aTasks = <<>> /\ aResult = [err |-> "unset"]
    /\ dryRun = FALSE /\ dOp = <<>> /\ dpc = [at |-> "idle"] /\ dLocal = <<>> /\ dTrx = <<>> /\ dUploader = <<>> /\ dChain = <<>> /\ dLog = <<>> /\ dResult = [err |-> "unset"] /\ dLookup = [err |-> "unset"]
    /\ rOp = <<>> /\ rpc = [at |-> "idle"] /\ rAttempt = 0 /\ rIds = <<>> /\ rUsed = {} /\ rChain = <<>>
    /\ pending = {} /\ completed = <<>>
    /\ txOptions = <<>> /\ gateway = <<>> /\ tpc = "idle" /\ txOut = [exit |-> "unset"]
    /\ spc = "idle" /\ sIter = 0 /\ sTasks = <<>>

\* getOutputFilePathAndName(destOutputPath)
GetOutputFilePathAndName ==
    /\ fpc = "call"
    /\ outResult' = getOutputFilePathAndName(fs, cwd, destOutputPath)
    /\ fpc' = IF outResult'.err = "none" THEN "returned" ELSE "thrown"
    /\ UNCHANGED <<fs, cwd, destOutputPath, hvars, qvars, pvars, ovars, lvars, avars, dvars, rvars, bvars, tvars, svars>>

OutputPathNext == GetOutputFilePathAndName

OutputPathSpec == OutputPathInit /\ [][OutputPathNext]_vars

-----------------------------------------------------------------------------
(* Claims on the output path.                                               *)

\* the resolved destination and what statSync finds there and at its parent
Resolved == resolve(cwd, destOutputPath)
DestStat == statSync(fs, Resolved)
ParentStat == statSync(fs, dirname(Resolved))

\* the pair of the parent directory and the base name of the destination
DirAndBase == [err |-> "none", val |-> <<dirname(Resolved), basename(Resolved)>>]

\* C30 as stated: an existing directory yields [resolvedPath]; an existing
\* regular file, or a path that does not exist and whose parent is a
\* directory, yields [parentDir, baseName]; an existing path that is neither
\* a directory nor a regular file signals the error "The destination isn't a
\* folder nor a file!"; a path that does not exist and whose parent is not a
\* directory signals an error.
C30_OutputFilePathAndName ==
    fpc # "call" =>
        /\ (DestStat.err = "none" /\ DestStat.kind = "dir") =>
              outResult = [err |-> "none", val |-> <<Resolved>>]
        /\ (DestStat.err = "none" /\ DestStat.kind = "file") => outResult = DirAndBase
        /\ (DestStat.err # "none" /\ ParentStat.err = "none" /\ ParentStat.kind = "dir") =>
              outResult = DirAndBase
        /\ (DestStat.err = "none" /\ DestStat.kind = "other") =>
              outResult = [err |-> NotFolderNorFile]
        /\ (DestStat.err # "none" /\ ~(ParentStat.err = "none" /\ ParentStat.kind = "dir")) =>
              outResult.err # "none"

\* what the function does: as stated for directories, regular files and
\* paths that do not exist; an existing path that is neither a directory nor
\* a regular file yields [parentDir, baseName] like a regular file, and the
\* error "The destination isn't a folder nor a file!" never leaves the
\* function
OutputPathAsComputed ==
    fpc # "call" =>
        /\ (DestStat.err = "none" /\ DestStat.kind = "dir") =>
              outResult = [err |-> "none", val |-> <<Resolved>>]
        /\ (DestStat.err = "none" /\ DestStat.kind \in {"file", "other"}) =>
              outResult = DirAndBase
        /\ (DestStat.err # "none" /\ ParentStat.err = "none" /\ ParentStat.kind = "dir") =>
              outResult = DirAndBase
        /\ (DestStat.err # "none" /\ ~(ParentStat.err = "none" /\ ParentStat.kind = "dir")) =>
              outResult.err \in {"ENOENT", NotADirectory}
        /\ outResult.err # NotFolderNorFile

\* the destination exists, is neither a directory nor a regular file, and
\* the function returned a directory and a file name
OtherKindReturned ==
    /\ fpc = "returned"
    /\ DestStat.err = "none" /\ DestStat.kind = "other"
    /\ outResult = DirAndBase


-----------------------------------------------------------------------------
(* Claims on stale files in a listing.                                      *)

\* the latest revision of the file with the id on the ledger
LatestFileRevision(id) ==
    drive.files[CHOOSE i \in 1..Len(drive.files) :
                   /\ drive.files[i].entityId = id
                   /\ \A j \in 1..Len(drive.files) :
                         drive.files[j].entityId = id =>
                             drive.files[j].unixTime <= drive.files[i].unixTime]

\* the file entries of the listing
ListedFiles ==
    {listed.val[i].entity : i \in 1..Len(listed.val)} \cap Range(drive.files)

\* C31 as stated: the listing of a folder F never holds a file whose latest
\* revision on the ledger has its parent outside the folders under F: a file
\* that a newer revision moved away is not listed under its old place.
C31_NoStaleFiles ==
    (lpc = "done" /\ listed.err = "none") =>
        \A e \in ListedFiles :
            LatestFileRevision(e.entityId).parentFolderId \in ListedFolderAndDescendants

\* what the listing does guarantee: every file it holds is a revision on the
\* ledger whose own parent is F or a folder under F, and the newest of the
\* revisions that have such a parent
ListedFilesNewestUnderListed ==
    (lpc = "done" /\ listed.err = "none") =>
        \A e \in ListedFiles :
            /\ e.parentFolderId \in ListedFolderAndDescendants
            /\ \A j \in 1..Len(drive.files) :
                  (drive.files[j].entityId = e.entityId
                     /\ drive.files[j].parentFolderId \in Range(listWork.childrenFolderIDs)) =>
                      drive.files[j].unixTime <= e.unixTime

\* the listing of A holds the revision of the file under A although a newer
\* revision has moved the file to B
StaleFileListed ==
    /\ lpc = "done" /\ listed.err = "none" /\ listArg = "f2"
    /\ Len(drive.files) = 2 /\ Len(drive.folders) = 3
    /\ drive.files[1].parentFolderId = "f2"
    /\ drive.files[2].parentFolderId = "f3"
    /\ drive.folders[3].parentFolderId = "f1"
    /\ drive.files[1] \in ListedFiles


-----------------------------------------------------------------------------
(* Claims on the builders of a page.                                        *)

\* every builder of the current page has completed
AllBuildersCompleted ==
    /\ queries # <<>>
    /\ pending = {}
    /\ Len(completed) = Len(CurrentPage)

\* C32: the builders of a page complete in any order, yet once all of them
\* have completed the cursor is the cursor of the last edge of the page; and
\* no query was issued while a builder of the page before it was outstanding.
C32_CursorUnderConcurrentBuilders ==
    /\ \A q \in 1..Len(queries) : queries[q].outstanding = 0
    /\ (qpc \in {"loop", "returned"} /\ queries # <<>>) => AllBuildersCompleted
    /\ (AllBuildersCompleted /\ Len(CurrentPage) > 0) =>
          cursor = CurrentPage[Len(CurrentPage)].cursor

\* C32 witness: the builders of a page of two edges completed last edge
\* first, were joined, and the next query went out with the cursor of the
\* last edge
C32_Witness ==
    /\ Len(queries) = 2
    /\ queries[1].edges = 2
    /\ queries[2].cursor = queries[1].page[2].cursor
    /\ Len(allFiles) = 2
    /\ qpc = "building" /\ Len(CurrentPage) = 1 /\ pending = {}

\* the builders of a page of two edges completed in the reverse of the
\* page's order and were joined
C32_ReverseOrderWitness ==
    /\ qpc = "loop" /\ queries # <<>> /\ Len(CurrentPage) = 2
    /\ completed = <<2, 1>>
    /\ cursor = CurrentPage[2].cursor


-----------------------------------------------------------------------------
(* Claims on the completion of the uploads.                                 *)

\* a folder or drive creation has returned successfully with dryRun off
CreationReturned ==
    /\ dOp.name \in {"createPublicFolder", "createPrivateFolder"} \cup DriveOpNames
    /\ ~dryRun
    /\ dpc.at = "returned" /\ dResult.err = "none"

\* C33 as stated: a folder or drive creation that returns successfully with
\* dryRun off has uploaded every chunk of every transaction it created, the
\* drive record of createPrivateDrive included, whatever the number of
\* chunks.
C33_UploadersDrivenToCompletion ==
    CreationReturned => \A j \in 1..Len(dTrx) : FullyUploaded(dTrx[j].phase)

\* what holds: every transaction but the drive record of createPrivateDrive
\* is uploaded whole, and of that record one chunk is uploaded
AllButPrivateDriveRecordComplete ==
    CreationReturned =>
        \A j \in 1..Len(dTrx) :
            IF dOp.name = "createPrivateDrive" /\ dTrx[j].phase = "drive"
            THEN \E i \in 1..Len(dChain) :
                    dChain[i].txId = dTrx[j].id /\ dChain[i].uploaded = 1
            ELSE FullyUploaded(dTrx[j].phase)

\* createPrivateDrive has returned successfully with one of the two chunks
\* of the drive record uploaded
PrivateDriveRecordIncomplete ==
    /\ CreationReturned /\ dOp.name = "createPrivateDrive" /\ dOp.chunks = 2
    /\ FullyUploaded("folder")
    /\ ~FullyUploaded("drive")


-----------------------------------------------------------------------------
(* Claims on the tags of a bundle.                                          *)

\* the number of tags of the object being prepared that carry the name
TagCount(name) ==
    Cardinality({i \in 1..Len(prepObject.tags) : prepObject.tags[i].name = name})

\* a caller tag of the bundle is named App-Name or App-Version
BundleCallerTagCollides ==
    \E i \in 1..Len(prepInput.otherTags) :
        prepInput.otherTags[i].name \in {"App-Name", "App-Version"}

\* C34 as stated: the outer transaction of a bundle carries one App-Name and
\* one App-Version tag, and caller tags with those names are rejected as on
\* the transaction and data-item paths: the preparation fails and the
\* transaction is not signed.
C34_BundleTagSafety ==
    (prepInput.kind = "bundle" /\ ppc \in {"tagged", "signed", "failed"}) =>
        /\ TagCount("App-Name") = 1
        /\ TagCount("App-Version") = 1
        /\ BundleCallerTagCollides => (ppc = "failed" /\ ~prepObject.signed)

\* what holds: the baseline tags are there once when no caller tag carries
\* their names, and every caller tag is added whatever its name
BundleTagsAsAdded ==
    (prepInput.kind = "bundle" /\ ppc \in {"tagged", "signed", "failed"}) =>
        /\ ppc # "failed"
        /\ ~BundleCallerTagCollides =>
              (TagCount("App-Name") = 1 /\ TagCount("App-Version") = 1)
        /\ SubSeq(prepObject.tags, Len(prepObject.tags) - Len(prepInput.otherTags) + 1,
                  Len(prepObject.tags)) = prepInput.otherTags

\* a bundle was signed with two App-Name tags, the second one the caller's
SecondAppNameSigned ==
    /\ prepInput.kind = "bundle" /\ ppc = "signed" /\ prepObject.signed
    /\ prepInput.otherTags = <<Tag("App-Name", "x")>>
    /\ TagCount("App-Name") = 2


-----------------------------------------------------------------------------
(* Claims on the reward settings of folder writes.                          *)

\* a folder transaction has been prepared by one of the operations that
\* write a folder record
FolderTrxPrepared ==
    /\ dOp.name \in {"createPublicFolder", "createPrivateFolder"} \cup DriveOpNames
    /\ HasTrx(dTrx, "folder")

\* the reward and the Boost tag that prepareArFSObjectTransaction gives a
\* transaction under the reward settings the caller passed
RewardAsPassed == CreateTransactionOf(dOp.rewardSettings, 3).reward
BoostAsPassed == dOp.rewardSettings.feeMultiple > 10

\* C35 as stated: the folder transaction of every folder write, private ones
\* included, carries the reward computed from the reward settings the caller
\* passed and the Boost tag exactly when the fee multiple is above 1.0.
C35_RewardSettingsHonoured ==
    FolderTrxPrepared =>
        /\ TrxOf(dTrx, "folder").reward = RewardAsPassed
        /\ TrxOf(dTrx, "folder").boost = BoostAsPassed

\* what holds: the public folder writes honour the reward settings; the
\* private ones prepare the folder transaction with the network's reward
\* and without a Boost tag, whatever the settings
RewardSettingsOfPublicFolders ==
    FolderTrxPrepared =>
        IF dOp.name \in PrivateOpNames
        THEN /\ TrxOf(dTrx, "folder").reward = 3
             /\ ~TrxOf(dTrx, "folder").boost
        ELSE /\ TrxOf(dTrx, "folder").reward = RewardAsPassed
             /\ TrxOf(dTrx, "folder").boost = BoostAsPassed

\* createPrivateFolder was given a fee multiple of 1.5 and has returned a
\* folder transaction without boost
PrivateFolderNotBoosted ==
    /\ dOp.name = "createPrivateFolder" /\ dOp.rewardSettings.feeMultiple = 15
    /\ dpc.at = "returned" /\ dResult.err = "none"
    /\ TrxOf(dTrx, "folder").reward = 3 /\ ~TrxOf(dTrx, "folder").boost

(***************************************************************************)
(* Claims on the dry run                                                   *)
(***************************************************************************)

\* a create or an upload operation of a DAO constructed with dryRun
DryRunOperation ==
    dryRun /\ dOp.name \in FolderOpNames \cup DriveOpNames \cup FileOpNames

\* the phases of the operation, in the order of its transactions
PhasesOfOperation ==
    IF dOp.name \in DriveOpNames THEN {"folder", "drive"}
    ELSE IF dOp.name \in FileOpNames THEN {"data", "meta"}
    ELSE {"folder"}

HolderCalled == holderCall.err # "unset"

\* C37: after any number of calls of selectTokenHolder against the same
\* contract object its balances table is the table before the call, so a
\* vaulted balance is counted once per address and not once per call
C37_ContractSnapshotUnchanged ==
    HolderCalled => contract.balances = holderCall.before.balances

\* what holds: the vault is never changed, and the balances table is the
\* table before the call when no address has a lock in the vault
SnapshotUnchangedWithoutLocks ==
    HolderCalled =>
        /\ contract.vault = holderCall.before.vault
        /\ (\A a \in Range(contract.vault.keys) : Len(contract.vault.of[a]) = 0)
              => contract.balances = holderCall.before.balances

\* a second call has counted the lock of an address a second time
VaultCountedTwice ==
    /\ oracleCalls = 2 /\ HolderCalled
    /\ \E a \in Range(contract.vault.keys) :
          /\ Len(contract.vault.of[a]) > 0
          /\ Includes(holderCall.before.balances.keys, a)
          /\ contract.balances.of[a] =
                holderCall.before.balances.of[a] + SumSeq(contract.vault.of[a])
          /\ holderCall.before.balances.of[a] >= SumSeq(contract.vault.of[a])
          /\ holderCall.weighted.of[a] = contract.balances.of[a]

(***************************************************************************)
(* The tx-status command (src/commands/tx_status.ts)                       *)
(***************************************************************************)

\* the largest number of confirmations a status reports or an option asks for
MaxConfirmations == 16
\* the largest block height a status reports
MaxHeight == 1

\* confirmations ?? 15
DefaultConfirmations == 15

SUCCESS_EXIT_CODE == "success"
ERROR_EXIT_CODE == "error"

\* the --confirmations option: absent, or a number
ConfirmationsOptions ==
    {[given |-> FALSE]} \cup {[given |-> TRUE, val |-> n] : n \in 0..MaxConfirmations}

\* (await getStatus(txId)).confirmed: null, or the block of the transaction
\* (the first block has height 0) with its number of confirmations
ConfStatuses ==
    {[confirmed |-> FALSE]} \cup
    {[confirmed |-> TRUE, block_height |-> hn[1], number_of_confirmations |-> hn[2]] :
        hn \in (0..MaxHeight) \X (0..MaxConfirmations)}

\* what the gateway answers about the transaction id
Gateways == [inMempool : BOOLEAN, status : ConfStatuses]

\* const confirmationAmount = confirmations ?? 15
confirmationAmount(confirmations) ==
    IF confirmations.given THEN confirmations.val ELSE DefaultConfirmations

\* confStatus?.block_height as a condition: undefined and 0 are falsy
BlockHeightTruthy(confStatus) ==
    confStatus.confirmed /\ confStatus.block_height # 0

\* the code after getStatus: the line printed and the exit code
StatusLine(confStatus, amount) ==
    IF ~BlockHeightTruthy(confStatus)
    THEN [line |-> "Not found", exit |-> ERROR_EXIT_CODE]
    ELSE IF confStatus.number_of_confirmations >= amount
    THEN [line |-> "Mined", exit |-> SUCCESS_EXIT_CODE]
    ELSE [line |-> "Confirming", exit |-> SUCCESS_EXIT_CODE]

TxStatusInit ==
    /\ txOptions \in [confirmations : ConfirmationsOptions]
    /\ gateway \in Gateways
    /\ tpc = "fetchMempool"
    /\ txOut = [exit |-> "unset"]
    \* the other components are at rest
    /\ entities = <<>> /\ hpc = "idle" /\ hierarchy = [err |-> "unset"]
    /\ subTree = [of |-> "unset"] /\ pathResult = [on |-> "unset"]
    /\ withPaths = [err |-> "unset"]
    /\ ledger = <<>> /\ latestRevisionsOnly = FALSE /\ qpc = "idle" /\ cursor = ""
    /\ hasNextPage = TRUE /\ allFiles = <<>> /\ queries = <<>> /\ listing = <<>>
    /\ ppc = "idle" /\ prepInput = <<>> /\ prepObject = <<>> /\ prepError = "none"
    /\ contract = <<>> /\ oracleCalls = 0 /\ tipCall = <<>> /\ holderCall = <<>>
    /\ drive = <<>> /\ lpc = "idle" /\ listArg = "" /\ listWork = <<>> /\ listed = [err |-> "unset"]
    /\ apc = "idle" /\ aInput = <<>> /\ aTrx = <<>> /\ aTasks = <<>> /\ aResult = [err |-> "unset"]
    /\ dryRun = FALSE /\ dOp = <<>> /\ dpc = [at |-> "idle"] /\ dLocal = <<>> /\ dTrx = <<>> /\ dUploader = <<>> /\ dChain = <<>> /\ dLog = <<>> /\ dResult = [err |-> "unset"] /\ dLookup = [err |-> "unset"]
    /\ rOp = <<>> /\ rpc = [at |-> "idle"] /\ rAttempt = 0 /\ rIds = <<>> /\ rUsed = {} /\ rChain = <<>>
    /\ pending = {} /\ completed = <<>>
    /\ fs = <<>> /\ cwd = <<>> /\ destOutputPath = <<>> /\ fpc = "idle" /\ outResult = [err |-> "unset"]
    /\ spc = "idle" /\ sIter = 0 /\ sTasks = <<>>

\* await fetchMempool(), the test of pending and the return of a pending id
FetchMempool ==
    /\ tpc = "fetchMempool"
    /\ IF gateway.inMempool
       THEN /\ txOut' = [line |-> "Pending", exit |-> SUCCESS_EXIT_CODE, queried |-> FALSE]
            /\ tpc' = "returned"
       ELSE /\ tpc' = "getStatus"
            /\ UNCHANGED txOut
    /\ UNCHANGED <<txOptions, gateway,
                   hvars, qvars, pvars, ovars, lvars, avars, dvars, rvars, fvars, bvars, svars>>

\* await cliArweave.transactions.getStatus(txId) and the rest of the action
GetStatus ==
    /\ tpc = "getStatus"
    /\ LET r == StatusLine(gateway.status, confirmationAmount(txOptions.confirmations))
       IN  txOut' = [line |-> r.line, exit |-> r.exit, queried |-> TRUE]
    /\ tpc' = "returned"
    /\ UNCHANGED <<txOptions, gateway,
                   hvars, qvars, pvars, ovars, lvars, avars, dvars, rvars, fvars, bvars, svars>>

TxStatusNext ==
    \/ FetchMempool
    \/ GetStatus

TxStatusSpec == TxStatusInit /\ [][TxStatusNext]_vars

-----------------------------------------------------------------------------
(* Claims on the tx-status command.                                         *)

\* the outcome the classification names for a status that has a block height
OutcomeOfConfirmed ==
    IF gateway.status.number_of_confirmations >= confirmationAmount(txOptions.confirmations)
    THEN [line |-> "Mined", exit |-> SUCCESS_EXIT_CODE, queried |-> TRUE]
    ELSE [line |-> "Confirming", exit |-> SUCCESS_EXIT_CODE, queried |-> TRUE]

\* what the threshold is: the option where given, 15 otherwise
ThresholdAsRequested ==
    confirmationAmount(txOptions.confirmations) =
        IF txOptions.confirmations.given THEN txOptions.confirmations.val ELSE 15

\* C38: tx-status puts every transaction id into exactly one outcome: Pending
\* with a success exit code when the id is in the mempool, the status not
\* being queried; otherwise Not found with an error exit code when the status
\* has no block height; otherwise Mined when the confirmations reach the
\* threshold (15 by default) and Confirming below it, both with success
C38_TxStatusClassification ==
    tpc = "returned" =>
        /\ ThresholdAsRequested
        /\ txOut =
              IF gateway.inMempool
              THEN [line |-> "Pending", exit |-> SUCCESS_EXIT_CODE, queried |-> FALSE]
              ELSE IF ~gateway.status.confirmed
              THEN [line |-> "Not found", exit |-> ERROR_EXIT_CODE, queried |-> TRUE]
              ELSE OutcomeOfConfirmed

\* what holds: the same classification for the transactions of every block
\* but the first, the transactions of block 0 being reported Not found
ClassificationAboveFirstBlock ==
    tpc = "returned" =>
        /\ ThresholdAsRequested
        /\ txOut =
              IF gateway.inMempool
              THEN [line |-> "Pending", exit |-> SUCCESS_EXIT_CODE, queried |-> FALSE]
              ELSE IF ~gateway.status.confirmed \/ gateway.status.block_height = 0
              THEN [line |-> "Not found", exit |-> ERROR_EXIT_CODE, queried |-> TRUE]
              ELSE OutcomeOfConfirmed

\* a transaction of block 0 with enough confirmations is reported Not found
FirstBlockReportedNotFound ==
    /\ tpc = "returned" /\ ~gateway.inMempool
    /\ gateway.status.confirmed /\ gateway.status.block_height = 0
    /\ gateway.status.number_of_confirmations >= DefaultConfirmations
    /\ txOut.line = "Not found" /\ txOut.exit = ERROR_EXIT_CODE

(***************************************************************************)
(* The sync loop of main (part_004)                                        *)
(***************************************************************************)

\* the largest number of conflicts getMyFileDownloadConflicts answers with
MaxConflicts == 2
\* the number of iterations of the loop a run follows
MaxIterations == 2

\* the answers of promptForFileOverwrite
OverwriteResponses == {"R", "O", "I"}

\* the callbacks forEach starts for the conflicts of an iteration: each runs
\* to its first await, the prompt, and forEach drops the promise it returns
StartedCallbacks(iter, n) ==
    [c \in 1..n |-> [iter |-> iter, conflict |-> c, at |-> "prompting", response |-> NoNode]]

SyncInit ==
    /\ spc = "sync"
    /\ sIter = 1
    /\ sTasks = <<>>
    \* the other components are at rest
    /\ entities = <<>> /\ hpc = "idle" /\ hierarchy = [err |-> "unset"]
    /\ subTree = [of |-> "unset"] /\ pathResult = [on |-> "unset"]
    /\ withPaths = [err |-> "unset"]
    /\ ledger = <<>> /\ latestRevisionsOnly = FALSE /\ qpc = "idle" /\ cursor = ""
    /\ hasNextPage = TRUE /\ allFiles = <<>> /\ queries = <<>> /\ listing = <<>>
    /\ ppc = "idle" /\ prepInput = <<>> /\ prepObject = <<>> /\ prepError = "none"
    /\ contract = <<>> /\ oracleCalls = 0 /\ tipCall = <<>> /\ holderCall = <<>>
    /\ drive = <<>> /\ lpc = "idle" /\ listArg = "" /\ listWork = <<>> /\ listed = [err |-> "unset"]
    /\ apc = "idle" /\ aInput = <<>> /\ aTrx = <<>> /\ aTasks = <<>> /\ aResult = [err |-> "unset"]
    /\ dryRun = FALSE /\ dOp = <<>> /\ dpc = [at |-> "idle"] /\ dLocal = <<>> /\ dTrx = <<>> /\ dUploader = <<>> /\ dChain = <<>> /\ dLog = <<>> /\ dResult = [err |-> "unset"] /\ dLookup = [err |-> "unset"]
    /\ rOp = <<>> /\ rpc = [at |-> "idle"] /\ rAttempt = 0 /\ rIds = <<>> /\ rUsed = {} /\ rChain = <<>>
    /\ pending = {} /\ completed = <<>>
    /\ fs = <<>> /\ cwd = <<>> /\ destOutputPath = <<>> /\ fpc = "idle" /\ outResult = [err |-> "unset"]
    /\ txOptions = <<>> /\ gateway = <<>> /\ tpc = "idle" /\ txOut = [exit |-> "unset"]

\* the iteration up to the await of getWalletBalance: the syncs and the
\* upload batch, getMyFileDownloadConflicts, the forEach over the conflicts
\* and the date
SyncAndStartConflicts ==
    /\ spc = "sync"
    /\ \E n \in 0..MaxConflicts : sTasks' = sTasks \o StartedCallbacks(sIter, n)
    /\ spc' = "balance"
    /\ UNCHANGED <<sIter, hvars, qvars, pvars, ovars, lvars, avars, dvars, rvars, fvars,
                   bvars, tvars>>

\* getWalletBalance answers: the report is logged and sleep(10000) begins
ReportBalance ==
    /\ spc = "balance"
    /\ spc' = "sleep"
    /\ UNCHANGED <<sIter, sTasks, hvars, qvars, pvars, ovars, lvars, avars, dvars, rvars,
                   fvars, bvars, tvars>>

\* the sleep ends and the loop turns
Wake ==
    /\ spc = "sleep"
    /\ sIter < MaxIterations
    /\ sIter' = sIter + 1
    /\ spc' = "sync"
    /\ UNCHANGED <<sTasks, hvars, qvars, pvars, ovars, lvars, avars, dvars, rvars, fvars,
                   bvars, tvars>>

\* the user answers a prompt: the callback goes on to
\* resolveFileDownloadConflict
PromptAnswered ==
    /\ \E t \in 1..Len(sTasks), response \in OverwriteResponses :
          /\ sTasks[t].at = "prompting"
          /\ sTasks' = [sTasks EXCEPT ![t].at = "resolving", ![t].response = response]
    /\ UNCHANGED <<spc, sIter, hvars, qvars, pvars, ovars, lvars, avars, dvars, rvars, fvars,
                   bvars, tvars>>

\* resolveFileDownloadConflict answers: the callback ends
ConflictResolved ==
    /\ \E t \in 1..Len(sTasks) :
          /\ sTasks[t].at = "resolving"
          /\ sTasks' = [sTasks EXCEPT ![t].at = "done"]
    /\ UNCHANGED <<spc, sIter, hvars, qvars, pvars, ovars, lvars, avars, dvars, rvars, fvars,
                   bvars, tvars>>

SyncNext ==
    \/ SyncAndStartConflicts
    \/ ReportBalance
    \/ Wake
    \/ PromptAnswered
    \/ ConflictResolved

SyncSpec == SyncInit /\ [][SyncNext]_vars

-----------------------------------------------------------------------------
(* Claims on the sync loop.                                                 *)

\* the callbacks of an iteration that have not ended, and those at the prompt
Unfinished(iter) == {t \in 1..Len(sTasks) : sTasks[t].iter = iter /\ sTasks[t].at # "done"}
Prompting(iter) == {t \in 1..Len(sTasks) : sTasks[t].iter = iter /\ sTasks[t].at = "prompting"}

\* C39: every conflict resolution started in an iteration has completed
\* before the iteration reports the balance and sleeps and before the next
\* iteration starts, and no two conflict prompts of one iteration are
\* outstanding at the same time
C39_ConflictsResolvedWithinIteration ==
    /\ spc = "sleep" => Unfinished(sIter) = {}
    /\ \A i \in 1..(sIter - 1) : Unfinished(i) = {}
    /\ \A i \in 1..sIter : Cardinality(Prompting(i)) <= 1

\* what holds: a callback resolves with the answer to its own prompt, and
\* the main loop starts the callbacks of an iteration once
CallbacksInOrder ==
    /\ \A t \in 1..Len(sTasks) :
          /\ sTasks[t].iter \in 1..sIter
          /\ (sTasks[t].at = "prompting") = (sTasks[t].response = NoNode)
    /\ \A t, u \in 1..Len(sTasks) :
          (sTasks[t].iter = sTasks[u].iter /\ sTasks[t].conflict = sTasks[u].conflict) => t = u
    /\ spc = "sync" => Unfinished(sIter) = {} /\ Prompting(sIter) = {}

\* the second iteration has started while both prompts of the first are
\* still outstanding
NextIterationWithPromptsOutstanding ==
    /\ sIter = 2 /\ spc = "balance"
    /\ Cardinality(Prompting(1)) = 2

(***************************************************************************)
(* Claims on the decoration of a listing                                   *)
(***************************************************************************)

\* an entity has been decorated against the hierarchy of the whole drive
Decorated == hpc = "done" /\ withPaths.err # "unset"

\* the parent the decorated entity names is a folder of the hierarchy or the
\* sentinel of the drive's root
ParentKnown ==
    \/ withPaths.entity.parentFolderId = ROOT_FOLDER
    \/ withPaths.entity.parentFolderId \in DOMAIN hierarchy.nmap

\* C40: decorating a folder or a file against the hierarchy of the whole
\* drive raises no error and yields path, txIdPath and entityIdPath, also
\* for a folder that is a local root because its parent is absent
C40_DecorationNeverFails ==
    Decorated =>
        /\ withPaths.err = "none"
        /\ Len(withPaths.path) > 0
        /\ Len(withPaths.txIdPath) > 0
        /\ Len(withPaths.entityIdPath) > 0

\* what holds: the decoration yields the three paths when the entity's
\* parent is known to the hierarchy, and throws a TypeError when it is not
DecorationFailsOnAbsentParent ==
    Decorated =>
        IF ParentKnown
        THEN /\ withPaths.err = "none"
             /\ Len(withPaths.path) > 0
             /\ Len(withPaths.txIdPath) > 0
             /\ Len(withPaths.entityIdPath) > 0
        ELSE withPaths.err = "TypeError"

\* a local root, a folder whose parent is absent, was decorated and the
\* constructor threw
LocalRootNotDecorated ==
    /\ Decorated
    /\ withPaths.entity.entityId \in DOMAIN hierarchy.nmap
    /\ hierarchy.nmap[withPaths.entity.entityId].parent = NoNode
    /\ withPaths.entity.parentFolderId \notin DOMAIN hierarchy.nmap \cup {ROOT_FOLDER}
    /\ withPaths.err = "TypeError"

====
